---- MODULE Spec2Model ----
(***************************************************************************)
(* Rating controller of the backend (src/unnamed/part_002): the Rating     *)
(* collection, the AggregatedMetrics counter collection, the three         *)
(* in-memory caches, and the request handlers that mutate and read them.   *)
(* Handlers run as concurrent requests; every await that separates reads   *)
(* made outside the transaction, the transaction callback, the commit and  *)
(* the code after the transaction is a separate step.                      *)
(***************************************************************************)
EXTENDS Integers, Sequences, FiniteSets, TLC

(* ---------------------------------------------------------------------- *)
(* Bounds of the model                                                     *)
(* ---------------------------------------------------------------------- *)
\* Rating documents created in a run of concurrent requests
MaxRatingId == 2
\* Rating documents created in a run of one request at a time
MaxSeqRatingId == 3
\* longest metric list handed to createRatings
MaxBatchLen == 2
\* largest magnitude of a count when the counter store is driven on its own
MaxCount == 2
\* Rating documents created in a run that submits rejected inputs too
MaxErrRatingId == 2
\* latest time of the clock, in milliseconds, in a run where time passes
MaxNow == 300001

(* ---------------------------------------------------------------------- *)
(* Reference data: users, classes, metrics                                 *)
(* ---------------------------------------------------------------------- *)
NoUser == ""
Users == {"u1", "u2"}
\* request slots: a slot runs one handler call at a time
Requests == {1, 2}

\* ClassModel documents; the class reference k0 names no document
ClassIds == {"k1", "k2", "k3"}
ClassRefs == ClassIds \cup {"k0"}
ClassDocs ==
  [k \in ClassIds |->
     CASE k = "k1" -> [courseId |-> "c1", subject |-> "COMPSCI", courseNumber |-> "61A",
                       semester |-> "Fall", year |-> 2024, classNumber |-> "001"]
       [] k = "k2" -> [courseId |-> "c1", subject |-> "COMPSCI", courseNumber |-> "61A",
                       semester |-> "Spring", year |-> 2025, classNumber |-> "001"]
       [] k = "k3" -> [courseId |-> "c12", subject |-> "MATH", courseNumber |-> "1A",
                       semester |-> "Fall", year |-> 2024, classNumber |-> "001"]]
CourseIds == {ClassDocs[k].courseId : k \in ClassIds}
\* a (subject, courseNumber) pair as passed to deleteRatings and the read handlers
CourseRef(k) == <<ClassDocs[k].subject, ClassDocs[k].courseNumber>>
CourseRefs == {CourseRef(k) : k \in ClassIds}

\* METRIC_MAPPINGS: isRating metrics are number scale, the others boolean scale
numberScaleMetrics == {"Usefulness"}
booleanScaleMetrics == {"Attendance"}
MetricNames == numberScaleMetrics \cup booleanScaleMetrics
REQUIRED_METRICS == {"Usefulness"}
\* ceiling of distinct rated courses per user
MaxUserCourses == 1

\* category values a counter row can carry, and the values requests submit
CategoryValues == 0..5
InputValues == {1, 3, 6}

\* the value range seeded on a first increment
valueRange(metricName) ==
  IF metricName \in numberScaleMetrics THEN {1, 2, 3, 4, 5}
  ELSE IF metricName \in booleanScaleMetrics THEN {0, 1}
  ELSE {}

Keys == ClassIds \X MetricNames \X CategoryValues

(* ---------------------------------------------------------------------- *)
(* State                                                                   *)
(* ---------------------------------------------------------------------- *)
VARIABLES
  ratings,            \* RatingModel: set of documents [id, createdBy, classId, metricName, value]
  aggregatedMetrics,  \* AggregatedMetricsModel: key -> sequence of categoryCount, one per row
  nextId,             \* next Rating _id
  courseAggregatedRatingsCache,      \* cache key -> [value, expiresAt]
  semestersWithRatingsCache,
  instructorAggregatedRatingsCache,
  now,                \* Date.now(), in minutes
  pc,                 \* position of each request
  req,                \* arguments and locals of each request (retried: its callback was
                      \* run again after a lost write conflict)
  tx,                 \* writes issued in the request's session, not yet committed
  conflict,           \* the request's transaction lost a write conflict
  result,             \* what the handler call that returned in the last step returned
  returned,           \* the value a read handler returned in the last step
  ended,              \* the number of endSession calls made in the last step
  prev,               \* the mutating call that returned true last (recorded by HistSpec only)
  phase               \* how far the calls that returned have come through read, submit, read

dbvars == <<ratings, aggregatedMetrics, nextId>>
cachevars == <<courseAggregatedRatingsCache, semestersWithRatingsCache,
               instructorAggregatedRatingsCache>>
vars == <<ratings, aggregatedMetrics, nextId, courseAggregatedRatingsCache,
          semestersWithRatingsCache, instructorAggregatedRatingsCache, now,
          pc, req, tx, conflict, result, returned, ended, prev, phase>>

(* ---------------------------------------------------------------------- *)
(* Documents                                                               *)
(* ---------------------------------------------------------------------- *)
CourseOf(r) == ClassDocs[r.classId].courseId
SameCourseRef(r, k) == CourseRef(r.classId) = CourseRef(k)
\* createRating lines 289-293: term or class number of the existing rating differs
TermDiffers(r, k) ==
  \/ ClassDocs[r.classId].semester # ClassDocs[k].semester
  \/ ClassDocs[r.classId].year # ClassDocs[k].year
  \/ ClassDocs[r.classId].classNumber # ClassDocs[k].classNumber

\* phase: n = 1 once a read of courseId by handler op has returned, n = 2 once a
\* submission for the course that began after it has returned true; a commit
\* that changes the stores in phase 2 starts the next epoch at n = 0
NoPhase == [n |-> 0, op |-> "none", courseId |-> "", epoch |-> 0]
\* removed and changed are set by the commit of a request: the Rating documents
\* it deleted and the courseIds whose counter rows it changed; session is
\* "open" from connection.startSession() until the handler leaves its
\* try/finally, whose finally block calls endSession
NoReq == [op |-> "none", user |-> NoUser, classRef |-> "k0", metricName |-> "",
          value |-> 0, metrics |-> <<>>, course |-> <<"", "">>,
          existingRatings |-> {}, inval |-> {}, retried |-> FALSE,
          metricNames |-> <<>>, aggregated |-> {}, phase |-> NoPhase,
          removed |-> {}, changed |-> {}, written |-> FALSE, session |-> "none"]
\* what a read returned: the handler, its course and metric filter, the phase
\* in which the call began, and the value
NoValue == [op |-> "none", courseId |-> "", metricNames |-> <<>>, began |-> NoPhase,
            value |-> {}]
\* a write set: ids deleted, <<id, value>> updates, documents created (their _id
\* is drawn when the write is applied), counter rows saved ([key, idx, val]) and counter rows created (key -> counts)
NoTx == [dels |-> {}, upds |-> {}, news |-> <<>>, rowSets |-> {},
         rowIns |-> [k \in Keys |-> <<>>]]

(* ---------------------------------------------------------------------- *)
(* Errors: the message thrown, and its extensions.code                     *)
(* ---------------------------------------------------------------------- *)
Unauthorized == "Unauthorized"
ClassNotFound == "Class not found"
RatingNotFound == "Rating not found"
CannotDecrement == "Aggregated Rating does not exist, cannot decrement"
InvalidMetricName == "Invalid metric name"
\* `Missing required metrics: ${missingRequired.join(", ")}`
RECURSIVE JoinNames(_)
JoinNames(S) ==
  IF S = {} THEN ""
  ELSE LET a == CHOOSE x \in S : TRUE
       IN  IF S = {a} THEN a ELSE a \o ", " \o JoinNames(S \ {a})
MissingRequiredMetrics(missingRequired) ==
  "Missing required metrics: " \o JoinNames(missingRequired)
InvalidValue == "Value out of range"
TooManyRatings == "Rating limit reached"
StorageFailure == "Storage error"

ErrorCode(message) ==
  CASE message = Unauthorized -> "UNAUTHENTICATED"
    [] message \in {ClassNotFound, RatingNotFound, CannotDecrement} -> "NOT_FOUND"
    [] message \in {InvalidMetricName, InvalidValue} -> "INVALID_ARGUMENT"
    [] message \in {MissingRequiredMetrics(S) : S \in SUBSET REQUIRED_METRICS \ {{}}}
         -> "BAD_USER_INPUT"
    [] message = TooManyRatings -> "CONSTRAINT_VIOLATION"
    [] message = StorageFailure -> "INTERNAL_SERVER_ERROR"
    [] OTHER -> "NONE"

(* ---------------------------------------------------------------------- *)
(* Cache primitives                                                        *)
(* ---------------------------------------------------------------------- *)
\* time to live of the entries of the three caches, in milliseconds
COURSE_AGGREGATED_RATINGS_TTL_MS == 120000
SEMESTER_RATINGS_TTL_MS == 300000
INSTRUCTOR_RATINGS_TTL_MS == 300000

\* getCachedValue with an entry taken as expired from its expiry time on
CacheHitBeforeExpiry(cache, key) == key \in DOMAIN cache /\ now < cache[key].expiresAt
\* getCachedValue: a hit needs an entry that has not expired; an expired entry
\* is deleted by the lookup
CacheHit(cache, key) == key \in DOMAIN cache /\ ~(now > cache[key].expiresAt)
\* the lookup deleting every expired entry of the cache, not only the one read
CacheAfterGetDropsExpired(cache, key) ==
  [k \in {j \in DOMAIN cache : ~(now > cache[j].expiresAt)} |-> cache[k]]
CacheAfterGet(cache, key) ==
  IF key \in DOMAIN cache /\ now > cache[key].expiresAt
  THEN [k \in (DOMAIN cache) \ {key} |-> cache[k]]
  ELSE cache
\* setCachedValue leaving an entry that is already stored under the key
setCachedValueKeepsEntry(cache, key, value, ttlMs) ==
  [k \in (DOMAIN cache) \cup {key} |->
     IF k = key /\ key \notin DOMAIN cache
     THEN [value |-> value, expiresAt |-> now + ttlMs] ELSE cache[k]]
setCachedValue(cache, key, value, ttlMs) ==
  [k \in (DOMAIN cache) \cup {key} |->
     IF k = key THEN [value |-> value, expiresAt |-> now + ttlMs] ELSE cache[k]]

\* getMetricNamesKey: "all" for no filter, else the names sorted and joined
\* a.localeCompare(b) <= 0 on metric names
NameLeq(a, b) == a = b \/ (a = "Attendance" /\ b = "Usefulness")
RECURSIVE InsertName(_, _)
InsertName(a, sorted) ==
  IF sorted = <<>> THEN <<a>>
  ELSE IF NameLeq(a, Head(sorted)) THEN <<a>> \o sorted
  ELSE <<Head(sorted)>> \o InsertName(a, Tail(sorted))
RECURSIVE SortNames(_)
SortNames(names) ==
  IF names = <<>> THEN <<>> ELSE InsertName(Head(names), SortNames(Tail(names)))
\* getMetricNamesKey joining the names in the order of the filter
getMetricNamesKeyUnsorted(metricNames) ==
  IF Len(metricNames) = 0 THEN <<"all">> ELSE metricNames
getMetricNamesKey(metricNames) ==
  IF Len(metricNames) = 0 THEN <<"all">> ELSE SortNames(metricNames)

\* the characters of a courseId
CourseIdChars(courseId) ==
  CASE courseId = "c1" -> <<"c", "1">>
    [] courseId = "c12" -> <<"c", "1", "2">>
    [] OTHER -> <<>>
\* the cache key `${courseId}:${getMetricNamesKey(metricNames)}` as the string
\* the map is keyed by: the characters of the courseId, the colon, the names
CacheKeyString(k) == CourseIdChars(k[1]) \o <<":">> \o Tail(k)
\* String.prototype.startsWith
startsWith(str, prefix) ==
  Len(prefix) <= Len(str) /\ SubSeq(str, 1, Len(prefix)) = prefix
\* invalidateRatingsCaches deleting only the unfiltered course-aggregate key
CourseCacheAfterInvalidateUnfiltered(cache, courseIds) ==
  [k \in {k \in DOMAIN cache : ~(k[1] \in courseIds /\ k = <<k[1], "all">>)} |-> cache[k]]
\* invalidateRatingsCaches with the courseId alone as the prefix of the keys
CourseCacheAfterInvalidateNoColon(cache, courseIds) ==
  [k \in {k \in DOMAIN cache :
            \A courseId \in courseIds :
              ~startsWith(CacheKeyString(k), CourseIdChars(courseId))} |-> cache[k]]
\* invalidateRatingsCaches: every course-aggregate key that starts with
\* `${courseId}:`, and the semesters and instructor entries of the course
CourseCacheAfterInvalidate(cache, courseIds) ==
  [k \in {k \in DOMAIN cache :
            \A courseId \in courseIds :
              ~startsWith(CacheKeyString(k), CourseIdChars(courseId) \o <<":">>)} |-> cache[k]]
KeyedCacheAfterInvalidate(cache, courseIds) ==
  [k \in (DOMAIN cache) \ courseIds |-> cache[k]]

(* ---------------------------------------------------------------------- *)
(* Counter store: handleCategoryCountChange on a session view              *)
(* A session view is [am, touched, err]: the counters as the session sees  *)
(* them, the rows it saved, and the error thrown so far.                   *)
(* ---------------------------------------------------------------------- *)
SessionView(am) == [am |-> am, touched |-> {}, err |-> "NONE"]

\* handleCategoryCountChange with an upsert in place of the throw: a decrement
\* of a key with no row creates the row with count -1
handleCategoryCountChangeUpserts(sv, classId, metricName, categoryValue, isIncrement) ==
  LET key == <<classId, metricName, categoryValue>>
      delta == IF isIncrement THEN 1 ELSE -1
  IN  IF sv.err # "NONE" THEN sv
      ELSE IF Len(sv.am[key]) > 0
      THEN [sv EXCEPT !.am[key][1] = @ + delta,
                      !.touched = @ \cup {<<key, 1>>}]
      ELSE IF isIncrement
      THEN IF valueRange(metricName) = {}
           THEN [sv EXCEPT !.err = InvalidMetricName]
           ELSE [sv EXCEPT !.am =
                   [k \in Keys |->
                      IF k[1] = classId /\ k[2] = metricName /\ k[3] \in valueRange(metricName)
                      THEN Append(sv.am[k], IF k[3] = categoryValue THEN 1 ELSE 0)
                      ELSE sv.am[k]]]
      ELSE [sv EXCEPT !.am[key] = <<-1>>]

\* handleCategoryCountChange seeding every row of the metric with count 1
handleCategoryCountChangeSeedsOnes(sv, classId, metricName, categoryValue, isIncrement) ==
  LET key == <<classId, metricName, categoryValue>>
      delta == IF isIncrement THEN 1 ELSE -1
  IN  IF sv.err # "NONE" THEN sv
      ELSE IF Len(sv.am[key]) > 0
      THEN [sv EXCEPT !.am[key][1] = @ + delta,
                      !.touched = @ \cup {<<key, 1>>}]
      ELSE IF isIncrement
      THEN IF valueRange(metricName) = {}
           THEN [sv EXCEPT !.err = InvalidMetricName]
           ELSE [sv EXCEPT !.am =
                   [k \in Keys |->
                      IF k[1] = classId /\ k[2] = metricName /\ k[3] \in valueRange(metricName)
                      THEN Append(sv.am[k], 1)
                      ELSE sv.am[k]]]
      ELSE [sv EXCEPT !.err = CannotDecrement]

handleCategoryCountChange(sv, classId, metricName, categoryValue, isIncrement) ==
  LET key == <<classId, metricName, categoryValue>>
      delta == IF isIncrement THEN 1 ELSE -1
  IN  IF sv.err # "NONE" THEN sv
      ELSE IF Len(sv.am[key]) > 0
      THEN \* findOne returned a row: categoryCount += delta; save
           [sv EXCEPT !.am[key][1] = @ + delta,
                      !.touched = @ \cup {<<key, 1>>}]
      ELSE IF isIncrement
      THEN IF valueRange(metricName) = {}
           THEN [sv EXCEPT !.err = InvalidMetricName]
           ELSE [sv EXCEPT !.am =
                   [k \in Keys |->
                      IF k[1] = classId /\ k[2] = metricName /\ k[3] \in valueRange(metricName)
                      THEN Append(sv.am[k], IF k[3] = categoryValue THEN 1 ELSE 0)
                      ELSE sv.am[k]]]
      ELSE [sv EXCEPT !.err = CannotDecrement]

\* the writes a session view holds relative to the committed counters
RowSets(sv, base) ==
  {[key |-> t[1], idx |-> t[2], val |-> sv.am[t[1]][t[2]]] :
     t \in {u \in sv.touched : u[2] <= Len(base[u[1]])}}
RowIns(sv, base) ==
  [k \in Keys |-> SubSeq(sv.am[k], Len(base[k]) + 1, Len(sv.am[k]))]

\* decrement the counter of every rating of a set (loops of createRatings and
\* deleteRatings)
RECURSIVE DecrementAll(_, _)
DecrementAll(sv, rs) ==
  IF rs = {} THEN sv
  ELSE LET r == CHOOSE x \in rs : TRUE
       IN  DecrementAll(
             handleCategoryCountChange(sv, r.classId, r.metricName, r.value, FALSE),
             rs \ {r})

\* increment the counter of every metric of a list at one class (createRatings step 2)
RECURSIVE IncrementAll(_, _, _)
IncrementAll(sv, classId, metrics) ==
  IF metrics = <<>> THEN sv
  ELSE IncrementAll(
         handleCategoryCountChange(sv, classId, Head(metrics).metricName,
                                   Head(metrics).value, TRUE),
         classId, Tail(metrics))

(* ---------------------------------------------------------------------- *)
(* Constraint checks (helper/checkConstraints)                             *)
(* ---------------------------------------------------------------------- *)
checkValueConstraint(metricName, value) ==
  IF metricName \in numberScaleMetrics THEN value \in 1..5
  ELSE IF metricName \in booleanScaleMetrics THEN value \in {0, 1}
  ELSE FALSE

\* the distinct courses a user holds ratings for (getUserRatings)
getUserRatings(user) == {CourseRef(r.classId) : r \in {x \in ratings : x.createdBy = user}}

checkUserMaxRatingsConstraint(userRatings, classRef) ==
  \/ CourseRef(classRef) \in userRatings
  \/ Cardinality(userRatings) < MaxUserCourses

\* the ratings findOne may return for (user, subject, courseNumber, metricName)
checkRatingExists(user, classRef, metricName) ==
  {r \in ratings : /\ r.createdBy = user
                   /\ SameCourseRef(r, classRef)
                   /\ r.metricName = metricName}

(* ---------------------------------------------------------------------- *)
(* Transaction plumbing                                                    *)
(* ---------------------------------------------------------------------- *)
\* Rating documents constructed in sessions that have not committed yet
RECURSIVE PendingNews(_)
PendingNews(P) ==
  IF P = {} THEN 0
  ELSE LET q == CHOOSE x \in P : TRUE
       IN  Len(tx[q].news) + PendingNews(P \ {q})
\* the run creates at most limit Rating documents
CanCreate(n, limit) == nextId + PendingNews(Requests) + n - 1 <= limit

\* end of the withTransaction callback: a thrown error aborts the transaction,
\* the finally block ends the session and the error reaches the caller;
\* otherwise the writes wait for the commit
\* EndCallback with the error of the callback replaced by a storage error
EndCallbackReplacesError(p, sv, dels, upds, news, inval) ==
  IF sv.err # "NONE"
  THEN /\ pc' = [pc EXCEPT ![p] = "idle"]
       /\ result' = StorageFailure
       /\ ended' = 1
       /\ returned' = NoValue
       /\ req' = [req EXCEPT ![p] = NoReq]
       /\ tx' = [tx EXCEPT ![p] = NoTx]
       /\ UNCHANGED <<ratings, aggregatedMetrics, nextId, conflict>>
  ELSE /\ pc' = [pc EXCEPT ![p] = "commit"]
       /\ req' = [req EXCEPT ![p].inval = inval]
       /\ tx' = [tx EXCEPT ![p] =
                   [dels |-> dels, upds |-> upds, news |-> news,
                    rowSets |-> RowSets(sv, aggregatedMetrics),
                    rowIns |-> RowIns(sv, aggregatedMetrics)]]
       /\ result' = "NONE"
       /\ ended' = 0
       /\ returned' = NoValue
       /\ UNCHANGED <<ratings, aggregatedMetrics, nextId, conflict>>

EndCallback(p, sv, dels, upds, news, inval) ==
  IF sv.err # "NONE"
  THEN /\ pc' = [pc EXCEPT ![p] = "idle"]
       /\ result' = sv.err
       /\ ended' = 1
       /\ returned' = NoValue
       /\ req' = [req EXCEPT ![p] = NoReq]
       /\ tx' = [tx EXCEPT ![p] = NoTx]
       /\ UNCHANGED <<ratings, aggregatedMetrics, nextId, conflict>>
  ELSE /\ pc' = [pc EXCEPT ![p] = "commit"]
       /\ req' = [req EXCEPT ![p].inval = inval]
       /\ tx' = [tx EXCEPT ![p] =
                   [dels |-> dels, upds |-> upds, news |-> news,
                    rowSets |-> RowSets(sv, aggregatedMetrics),
                    rowIns |-> RowIns(sv, aggregatedMetrics)]]
       /\ result' = "NONE"
       /\ ended' = 0
       /\ returned' = NoValue
       /\ UNCHANGED <<ratings, aggregatedMetrics, nextId, conflict>>

\* the handler returns or throws before any session is started
Return(p, err) ==
  /\ result' = err
  /\ ended' = 0
  /\ returned' = NoValue
  /\ UNCHANGED <<ratings, aggregatedMetrics, nextId, cachevars, now, pc, req, tx, conflict, prev, phase>>

Begin(p, r) ==
  /\ pc' = [pc EXCEPT ![p] = "tx"]
  /\ req' = [req EXCEPT ![p] = [r EXCEPT !.phase = phase, !.session = "open"]]
  /\ result' = "NONE"
  /\ ended' = 0
  /\ returned' = NoValue
  /\ UNCHANGED <<ratings, aggregatedMetrics, nextId, cachevars, now, tx, conflict, prev, phase>>

(* ---------------------------------------------------------------------- *)
(* createRating                                                            *)
(* ---------------------------------------------------------------------- *)
\* createRating without the check of the value
createRatingAnyValue(p, user, classRef, metricName, value) ==
  /\ pc[p] = "idle"
  /\ IF user = NoUser THEN Return(p, Unauthorized)
     ELSE IF classRef \notin ClassIds THEN Return(p, ClassNotFound)
     ELSE IF ~checkUserMaxRatingsConstraint(getUserRatings(user), classRef)
     THEN Return(p, TooManyRatings)
     ELSE Begin(p, [NoReq EXCEPT !.op = "createRating", !.user = user,
                                 !.classRef = classRef, !.metricName = metricName,
                                 !.value = value])
\* lines 231-261: checks and reads made before the session is started
createRating(p, user, classRef, metricName, value) ==
  /\ pc[p] = "idle"
  /\ IF user = NoUser THEN Return(p, Unauthorized)
     ELSE IF ~checkValueConstraint(metricName, value) THEN Return(p, InvalidValue)
     ELSE IF classRef \notin ClassIds THEN Return(p, ClassNotFound)
     ELSE IF ~checkUserMaxRatingsConstraint(getUserRatings(user), classRef)
     THEN Return(p, TooManyRatings)
     ELSE Begin(p, [NoReq EXCEPT !.op = "createRating", !.user = user,
                                 !.classRef = classRef, !.metricName = metricName,
                                 !.value = value])

\* lines 263-322: the transaction callback
createRatingTx(p, limit) ==
  /\ pc[p] = "tx" /\ req[p].op = "createRating"
  /\ LET r == req[p]
         courseId == ClassDocs[r.classRef].courseId
         newRating == [createdBy |-> r.user, classId |-> r.classRef,
                       metricName |-> r.metricName, value |-> r.value]
         sv0 == SessionView(aggregatedMetrics)
         matches == checkRatingExists(r.user, r.classRef, r.metricName)
     IN  \/ \* no existing rating: createNewRating
            /\ matches = {}
            /\ CanCreate(1, limit)
            /\ EndCallback(p,
                 handleCategoryCountChange(sv0, r.classRef, r.metricName, r.value, TRUE),
                 {}, {}, <<newRating>>, {courseId})
            /\ UNCHANGED cachevars
         \/ \* existing rating of another term: deleteRating in this session, then createNewRating
            \E existingRating \in matches :
              /\ TermDiffers(existingRating, r.classRef)
              /\ CanCreate(1, limit)
              /\ \E rating \in {x \in ratings :
                                  /\ x.createdBy = r.user
                                  /\ x.classId = existingRating.classId
                                  /\ x.metricName = existingRating.metricName} :
                   LET sv1 == handleCategoryCountChange(sv0, rating.classId,
                                existingRating.metricName, rating.value, FALSE)
                       sv2 == handleCategoryCountChange(sv1, r.classRef, r.metricName,
                                r.value, TRUE)
                   IN  /\ EndCallback(p, sv2, {rating.id}, {}, <<newRating>>, {courseId})
                       /\ IF sv1.err = "NONE"
                          THEN \* deleteRating lines 435-437, run inside the callback
                               /\ courseAggregatedRatingsCache' =
                                    CourseCacheAfterInvalidate(courseAggregatedRatingsCache,
                                                               {CourseOf(rating)})
                               /\ semestersWithRatingsCache' =
                                    KeyedCacheAfterInvalidate(semestersWithRatingsCache,
                                                              {CourseOf(rating)})
                               /\ instructorAggregatedRatingsCache' =
                                    KeyedCacheAfterInvalidate(instructorAggregatedRatingsCache,
                                                              {CourseOf(rating)})
                          ELSE UNCHANGED cachevars
         \/ \* existing rating of the same term: handleExistingRating
            \E existingRating \in matches :
              /\ ~TermDiffers(existingRating, r.classRef)
              /\ IF existingRating.value = r.value
                 THEN EndCallback(p, sv0, {}, {}, <<>>, {courseId})
                 ELSE EndCallback(p,
                        handleCategoryCountChange(
                          handleCategoryCountChange(sv0, existingRating.classId,
                            existingRating.metricName, existingRating.value, FALSE),
                          existingRating.classId, existingRating.metricName, r.value, TRUE),
                        {}, {<<existingRating.id, r.value>>}, <<>>, {courseId})
              /\ UNCHANGED cachevars
  /\ UNCHANGED <<now, prev, phase>>

(* ---------------------------------------------------------------------- *)
(* deleteRating (called by a request, with no existing session)            *)
(* ---------------------------------------------------------------------- *)
deleteRating(p, user, classRef, metricName) ==
  /\ pc[p] = "idle"
  /\ IF user = NoUser THEN Return(p, Unauthorized)
     ELSE Begin(p, [NoReq EXCEPT !.op = "deleteRating", !.user = user,
                                 !.classRef = classRef, !.metricName = metricName])

\* deleteRatingOperations without the throw when no Rating matches
deleteRatingTxIgnoresMissing(p) ==
  /\ pc[p] = "tx" /\ req[p].op = "deleteRating"
  /\ LET r == req[p]
         found == {x \in ratings : /\ x.createdBy = r.user
                                   /\ x.classId = r.classRef
                                   /\ x.metricName = r.metricName}
     IN  IF found = {}
         THEN EndCallback(p, SessionView(aggregatedMetrics),
                          {}, {}, <<>>, {})
         ELSE \E rating \in found :
                EndCallback(p,
                  handleCategoryCountChange(SessionView(aggregatedMetrics), rating.classId,
                                            r.metricName, rating.value, FALSE),
                  {rating.id}, {}, <<>>, {CourseOf(rating)})
  /\ UNCHANGED <<cachevars, now, prev, phase>>

\* deleteRatingOperations, lines 331-380, as the transaction callback
deleteRatingTx(p) ==
  /\ pc[p] = "tx" /\ req[p].op = "deleteRating"
  /\ LET r == req[p]
         found == {x \in ratings : /\ x.createdBy = r.user
                                   /\ x.classId = r.classRef
                                   /\ x.metricName = r.metricName}
     IN  IF found = {}
         THEN EndCallback(p, [SessionView(aggregatedMetrics) EXCEPT !.err = RatingNotFound],
                          {}, {}, <<>>, {})
         ELSE \E rating \in found :
                EndCallback(p,
                  handleCategoryCountChange(SessionView(aggregatedMetrics), rating.classId,
                                            r.metricName, rating.value, FALSE),
                  {rating.id}, {}, <<>>, {CourseOf(rating)})
  /\ UNCHANGED <<cachevars, now, prev, phase>>

(* ---------------------------------------------------------------------- *)
(* createRatings                                                           *)
(* ---------------------------------------------------------------------- *)
MetricInputs == [metricName : MetricNames, value : InputValues]
MetricLists == UNION {[1..n -> MetricInputs] : n \in 1..MaxBatchLen}

\* lines 909-912: the required metrics the list does not provide
missingRequired(metrics) ==
  {m \in REQUIRED_METRICS : \A i \in 1..Len(metrics) : metrics[i].metricName # m}

\* createRatings without the ceiling on the courses a user rates
createRatingsNoCeiling(p, user, classRef, metrics) ==
  /\ pc[p] = "idle"
  /\ IF user = NoUser THEN Return(p, Unauthorized)
     ELSE IF missingRequired(metrics) # {}
     THEN Return(p, MissingRequiredMetrics(missingRequired(metrics)))
     ELSE IF \E i \in 1..Len(metrics) :
               ~checkValueConstraint(metrics[i].metricName, metrics[i].value)
     THEN Return(p, InvalidValue)
     ELSE IF classRef \notin ClassIds THEN Return(p, ClassNotFound)
     ELSE Begin(p, [NoReq EXCEPT !.op = "createRatings", !.user = user,
                      !.classRef = classRef, !.metrics = metrics,
                      !.existingRatings =
                         {x \in ratings : /\ x.createdBy = user
                                          /\ CourseOf(x) = ClassDocs[classRef].courseId}])
\* createRatings with the class looked up before the list is examined
createRatingsLooksUpFirst(p, user, classRef, metrics) ==
  /\ pc[p] = "idle"
  /\ IF user = NoUser THEN Return(p, Unauthorized)
     ELSE IF classRef \notin ClassIds THEN Return(p, ClassNotFound)
     ELSE IF missingRequired(metrics) # {}
     THEN Return(p, MissingRequiredMetrics(missingRequired(metrics)))
     ELSE IF \E i \in 1..Len(metrics) :
               ~checkValueConstraint(metrics[i].metricName, metrics[i].value)
     THEN Return(p, InvalidValue)
     ELSE IF ~checkUserMaxRatingsConstraint(getUserRatings(user), classRef)
     THEN Return(p, TooManyRatings)
     ELSE Begin(p, [NoReq EXCEPT !.op = "createRatings", !.user = user,
                      !.classRef = classRef, !.metrics = metrics,
                      !.existingRatings =
                         {x \in ratings : /\ x.createdBy = user
                                          /\ CourseOf(x) = ClassDocs[classRef].courseId}])
\* lines 902-952: checks, and the find of the user's ratings of the course
createRatings(p, user, classRef, metrics) ==
  /\ pc[p] = "idle"
  /\ IF user = NoUser THEN Return(p, Unauthorized)
     ELSE IF missingRequired(metrics) # {}
     THEN Return(p, MissingRequiredMetrics(missingRequired(metrics)))
     ELSE IF \E i \in 1..Len(metrics) :
               ~checkValueConstraint(metrics[i].metricName, metrics[i].value)
     THEN Return(p, InvalidValue)
     ELSE IF classRef \notin ClassIds THEN Return(p, ClassNotFound)
     ELSE IF ~checkUserMaxRatingsConstraint(getUserRatings(user), classRef)
     THEN Return(p, TooManyRatings)
     ELSE Begin(p, [NoReq EXCEPT !.op = "createRatings", !.user = user,
                      !.classRef = classRef, !.metrics = metrics,
                      !.existingRatings =
                         {x \in ratings : /\ x.createdBy = user
                                          /\ CourseOf(x) = ClassDocs[classRef].courseId}])

\* lines 956-1012: the transaction callback, over the ratings found before it
createRatingsTx(p, limit) ==
  /\ pc[p] = "tx" /\ req[p].op = "createRatings"
  /\ LET r == req[p]
         n == Len(r.metrics)
         news == [i \in 1..n |->
                   [createdBy |-> r.user, classId |-> r.classRef,
                    metricName |-> r.metrics[i].metricName,
                    value |-> r.metrics[i].value]]
         sv1 == DecrementAll(SessionView(aggregatedMetrics), r.existingRatings)
         sv2 == IncrementAll(sv1, r.classRef, r.metrics)
     IN  /\ CanCreate(n, limit)
         /\ EndCallback(p, sv2, {x.id : x \in r.existingRatings}, {}, news,
                        {ClassDocs[r.classRef].courseId})
  /\ UNCHANGED <<cachevars, now, prev, phase>>

(* ---------------------------------------------------------------------- *)
(* deleteRatings                                                           *)
(* ---------------------------------------------------------------------- *)
\* deleteRatings with the find made before the test of the caller's identity
deleteRatingsFindsFirst(p, user, course) ==
  /\ pc[p] = "idle"
  /\ LET existingRatings == {x \in ratings : /\ x.createdBy = user
                                             /\ CourseRef(x.classId) = course}
     IN  IF existingRatings = {} THEN Return(p, "OK")
         ELSE IF user = NoUser THEN Return(p, Unauthorized)
         ELSE Begin(p, [NoReq EXCEPT !.op = "deleteRatings", !.user = user,
                          !.course = course, !.existingRatings = existingRatings])

\* lines 1026-1046
\* deleteRatings without the early return for a user who holds no Rating of
\* the course
deleteRatingsStartsSession(p, user, course) ==
  /\ pc[p] = "idle"
  /\ LET existingRatings == {x \in ratings : /\ x.createdBy = user
                                             /\ CourseRef(x.classId) = course}
     IN  IF user = NoUser THEN Return(p, Unauthorized)
         ELSE Begin(p, [NoReq EXCEPT !.op = "deleteRatings", !.user = user,
                          !.course = course, !.existingRatings = existingRatings])
deleteRatings(p, user, course) ==
  /\ pc[p] = "idle"
  /\ LET existingRatings == {x \in ratings : /\ x.createdBy = user
                                             /\ CourseRef(x.classId) = course}
     IN  IF user = NoUser THEN Return(p, Unauthorized)
         ELSE IF existingRatings = {} THEN Return(p, "OK")
         ELSE Begin(p, [NoReq EXCEPT !.op = "deleteRatings", !.user = user,
                          !.course = course, !.existingRatings = existingRatings])

\* lines 1050-1070
deleteRatingsTx(p) ==
  /\ pc[p] = "tx" /\ req[p].op = "deleteRatings"
  /\ LET r == req[p]
     IN  EndCallback(p, DecrementAll(SessionView(aggregatedMetrics), r.existingRatings),
                     {x.id : x \in r.existingRatings}, {}, <<>>,
                     {CourseOf(x) : x \in r.existingRatings})
  /\ UNCHANGED <<cachevars, now, prev, phase>>

(* ---------------------------------------------------------------------- *)
(* The counter store on its own: a session that applies                    *)
(* handleCategoryCountChange to keys of its choice                         *)
(* ---------------------------------------------------------------------- *)
\* the counters as the session of p sees them: committed rows with its own writes
UnitView(p) ==
  [k \in Keys |->
     [i \in 1..Len(aggregatedMetrics[k]) |->
        IF \E w \in tx[p].rowSets : w.key = k /\ w.idx = i
        THEN (CHOOSE w \in tx[p].rowSets : w.key = k /\ w.idx = i).val
        ELSE aggregatedMetrics[k][i]] \o tx[p].rowIns[k]]

adjustBegin(p) ==
  /\ pc[p] = "idle"
  /\ Begin(p, [NoReq EXCEPT !.op = "adjust"])

\* one call of handleCategoryCountChange in the session; a throw aborts the unit
adjust(p, classId, metricName, categoryValue, isIncrement) ==
  /\ pc[p] = "tx" /\ req[p].op = "adjust"
  /\ LET key == <<classId, metricName, categoryValue>>
         view == UnitView(p)
         sv == handleCategoryCountChange(
                 [am |-> view, touched |-> {<<w.key, w.idx>> : w \in tx[p].rowSets},
                  err |-> "NONE"],
                 classId, metricName, categoryValue, isIncrement)
     IN  /\ Len(view[key]) > 0 =>
              /\ view[key][1] + (IF isIncrement THEN 1 ELSE -1) <= MaxCount
              /\ view[key][1] + (IF isIncrement THEN 1 ELSE -1) >= -MaxCount
         /\ IF sv.err # "NONE"
            THEN /\ pc' = [pc EXCEPT ![p] = "idle"]
                 /\ req' = [req EXCEPT ![p] = NoReq]
                 /\ tx' = [tx EXCEPT ![p] = NoTx]
                 /\ result' = sv.err
                 /\ ended' = 1
                 /\ returned' = NoValue
            ELSE /\ tx' = [tx EXCEPT ![p].rowSets = RowSets(sv, aggregatedMetrics),
                                     ![p].rowIns = RowIns(sv, aggregatedMetrics)]
                 /\ result' = "NONE"
                 /\ ended' = 0
                 /\ returned' = NoValue
                 /\ UNCHANGED <<pc, req>>
  /\ UNCHANGED <<ratings, aggregatedMetrics, nextId, cachevars, now, conflict, prev, phase>>

\* the callback returns: the writes wait for the commit
adjustEnd(p) ==
  /\ pc[p] = "tx" /\ req[p].op = "adjust"
  /\ pc' = [pc EXCEPT ![p] = "commit"]
  /\ result' = "NONE"
  /\ ended' = 0
  /\ returned' = NoValue
  /\ UNCHANGED <<ratings, aggregatedMetrics, nextId, cachevars, now, req, tx, conflict, prev, phase>>

(* ---------------------------------------------------------------------- *)
(* session.withTransaction: commit, retry on a write conflict, failure     *)
(* ---------------------------------------------------------------------- *)
\* the Rating documents and counter rows a write set modifies
WrittenRatings(w) == {id \in w.dels \cup {u[1] : u \in w.upds} :
                        \E x \in ratings : x.id = id}
WrittenRows(w) == {<<s.key, s.idx>> : s \in w.rowSets}

\* RatingsAfter with the updates of values left out
RatingsAfterDropsUpdates(w) ==
  {y \in ratings : y.id \notin w.dels}
  \cup {[id |-> nextId + i - 1, createdBy |-> w.news[i].createdBy,
         classId |-> w.news[i].classId, metricName |-> w.news[i].metricName,
         value |-> w.news[i].value] : i \in 1..Len(w.news)}

RatingsAfter(w) ==
  {[x EXCEPT !.value = IF \E u \in w.upds : u[1] = x.id
                       THEN (CHOOSE u \in w.upds : u[1] = x.id)[2]
                       ELSE x.value] :
     x \in {y \in ratings : y.id \notin w.dels}}
  \cup {[id |-> nextId + i - 1, createdBy |-> w.news[i].createdBy,
         classId |-> w.news[i].classId, metricName |-> w.news[i].metricName,
         value |-> w.news[i].value] : i \in 1..Len(w.news)}

\* AggregatedMetricsAfter with the rows whose count has fallen to zero deleted
AggregatedMetricsAfterPrunesZero(w) ==
  [k \in Keys |->
     SelectSeq([i \in 1..Len(aggregatedMetrics[k]) |->
                  IF \E s \in w.rowSets : s.key = k /\ s.idx = i
                  THEN (CHOOSE s \in w.rowSets : s.key = k /\ s.idx = i).val
                  ELSE aggregatedMetrics[k][i]] \o w.rowIns[k],
               LAMBDA c : c # 0)]

AggregatedMetricsAfter(w) ==
  [k \in Keys |->
     [i \in 1..Len(aggregatedMetrics[k]) |->
        IF \E s \in w.rowSets : s.key = k /\ s.idx = i
        THEN (CHOOSE s \in w.rowSets : s.key = k /\ s.idx = i).val
        ELSE aggregatedMetrics[k][i]] \o w.rowIns[k]]
NoCourse == ""
\* getCourseId: the courseId of a subject and courseNumber, if there is one
getCourseId(course) ==
  IF \E k \in ClassIds : CourseRef(k) = course
  THEN ClassDocs[CHOOSE k \in ClassIds : CourseRef(k) = course].courseId
  ELSE NoCourse
\* the courseIds whose counter rows a write set changes or creates
ChangedCourses(w) ==
  {ClassDocs[k[1]].courseId :
     k \in {x \in Keys : AggregatedMetricsAfter(w)[x] # aggregatedMetrics[x]}}

\* Commit with the deletes of a write set committed on their own, before the
\* rest of it
CommitDeletesFirst(p) ==
  /\ pc[p] = "commit" /\ ~conflict[p]
  /\ ratings' = IF tx[p].dels # {} /\ tx[p].news # <<>>
                THEN {x \in ratings : x.id \notin tx[p].dels}
                ELSE RatingsAfter(tx[p])
  /\ aggregatedMetrics' = IF tx[p].dels # {} /\ tx[p].news # <<>>
                          THEN aggregatedMetrics
                          ELSE AggregatedMetricsAfter(tx[p])
  /\ conflict' = [q \in Requests |->
                    IF q # p /\ pc[q] = "commit"
                       /\ (\/ WrittenRatings(tx[q]) \cap WrittenRatings(tx[p]) # {}
                           \/ WrittenRows(tx[q]) \cap WrittenRows(tx[p]) # {})
                    THEN TRUE ELSE conflict[q]]
  /\ nextId' = IF tx[p].dels # {} /\ tx[p].news # <<>> THEN nextId
               ELSE nextId + Len(tx[p].news)
  /\ pc' = IF tx[p].dels # {} /\ tx[p].news # <<>> THEN pc
           ELSE [pc EXCEPT ![p] = "committed"]
  /\ tx' = IF tx[p].dels # {} /\ tx[p].news # <<>>
           THEN [tx EXCEPT ![p].dels = {}]
           ELSE [tx EXCEPT ![p] = NoTx]
  /\ result' = "NONE"
  /\ ended' = 0
  /\ returned' = NoValue
  /\ phase' = IF phase.n = 2 /\ (\/ RatingsAfter(tx[p]) # ratings
                                  \/ AggregatedMetricsAfter(tx[p]) # aggregatedMetrics)
              THEN [NoPhase EXCEPT !.epoch = phase.epoch + 1]
              ELSE phase
  /\ UNCHANGED <<cachevars, now, req, prev>>

Commit(p) ==
  /\ pc[p] = "commit" /\ ~conflict[p]
  /\ ratings' = RatingsAfter(tx[p])
  /\ aggregatedMetrics' = AggregatedMetricsAfter(tx[p])
  /\ conflict' = [q \in Requests |->
                    IF q # p /\ pc[q] = "commit"
                       /\ (\/ WrittenRatings(tx[q]) \cap WrittenRatings(tx[p]) # {}
                           \/ WrittenRows(tx[q]) \cap WrittenRows(tx[p]) # {})
                    THEN TRUE ELSE conflict[q]]
  /\ nextId' = nextId + Len(tx[p].news)
  /\ pc' = [pc EXCEPT ![p] = "committed"]
  /\ tx' = [tx EXCEPT ![p] = NoTx]
  /\ result' = "NONE"
  /\ ended' = 0
  /\ returned' = NoValue
  /\ phase' = IF phase.n = 2 /\ (\/ RatingsAfter(tx[p]) # ratings
                                  \/ AggregatedMetricsAfter(tx[p]) # aggregatedMetrics)
              THEN [NoPhase EXCEPT !.epoch = phase.epoch + 1]
              ELSE phase
  /\ req' = [q \in Requests |->
               IF q = p
               THEN [req[p] EXCEPT !.removed = {x \in ratings : x.id \in tx[p].dels},
                                   !.changed = ChangedCourses(tx[p])]
               ELSE IF /\ pc[q] \in {"aggregate", "fill"}
                       /\ getCourseId(req[q].course) \in ChangedCourses(tx[p])
               THEN [req[q] EXCEPT !.written = TRUE]
               ELSE req[q]]
  /\ UNCHANGED <<cachevars, now, prev>>

\* a transaction that lost a write conflict, or met another transient error, is
\* aborted and its callback run again
Retry(p) ==
  /\ pc[p] = "commit"
  /\ pc' = [pc EXCEPT ![p] = "tx"]
  /\ tx' = [tx EXCEPT ![p] = NoTx]
  /\ conflict' = [conflict EXCEPT ![p] = FALSE]
  /\ req' = [req EXCEPT ![p].retried = @ \/ conflict[p]]
  /\ result' = "NONE"
  /\ ended' = 0
  /\ returned' = NoValue
  /\ UNCHANGED <<ratings, aggregatedMetrics, nextId, cachevars, now, prev, phase>>

\* StorageError with the Rating deletes issued outside the session: they stay
\* applied when the transaction is aborted
StorageErrorKeepsDeletes(p) ==
  /\ pc[p] = "commit"
  /\ pc' = [pc EXCEPT ![p] = "idle"]
  /\ tx' = [tx EXCEPT ![p] = NoTx]
  /\ req' = [req EXCEPT ![p] = NoReq]
  /\ conflict' = [conflict EXCEPT ![p] = FALSE]
  /\ result' = StorageFailure
  /\ ended' = 1
  /\ returned' = NoValue
  /\ ratings' = {x \in ratings : x.id \notin tx[p].dels}
  /\ UNCHANGED <<aggregatedMetrics, nextId, cachevars, now, prev, phase>>

\* a storage error that is not transient aborts the transaction and is rethrown
\* through the finally block, which ends the session
StorageError(p) ==
  /\ pc[p] = "commit"
  /\ pc' = [pc EXCEPT ![p] = "idle"]
  /\ tx' = [tx EXCEPT ![p] = NoTx]
  /\ req' = [req EXCEPT ![p] = NoReq]
  /\ conflict' = [conflict EXCEPT ![p] = FALSE]
  /\ result' = StorageFailure
  /\ ended' = 1
  /\ returned' = NoValue
  /\ UNCHANGED <<ratings, aggregatedMetrics, nextId, cachevars, now, prev, phase>>

\* after the transaction: endSession, invalidateRatingsCaches, return true
\* (record: the call is noted in prev)
Finish(p, record) ==
  /\ pc[p] = "committed"
  /\ prev' = IF record
             THEN [req[p] EXCEPT !.existingRatings = {}, !.inval = {}, !.retried = FALSE,
                                 !.phase = NoPhase, !.removed = {}, !.changed = {},
                                 !.session = "none"]
             ELSE prev
  /\ phase' = IF /\ phase.n = 1 /\ req[p].phase = phase
                 /\ req[p].op \in {"createRating", "createRatings"}
                 /\ ClassDocs[req[p].classRef].courseId = phase.courseId
              THEN [phase EXCEPT !.n = 2]
              ELSE phase
  /\ courseAggregatedRatingsCache' =
       CourseCacheAfterInvalidate(courseAggregatedRatingsCache, req[p].inval)
  /\ semestersWithRatingsCache' =
       KeyedCacheAfterInvalidate(semestersWithRatingsCache, req[p].inval)
  /\ instructorAggregatedRatingsCache' =
       KeyedCacheAfterInvalidate(instructorAggregatedRatingsCache, req[p].inval)
  /\ pc' = [pc EXCEPT ![p] = "idle"]
  /\ req' = [req EXCEPT ![p] = NoReq]
  /\ result' = "OK"
  /\ ended' = 1
  /\ returned' = NoValue
  /\ UNCHANGED <<ratings, aggregatedMetrics, nextId, now, tx, conflict>>

(* ---------------------------------------------------------------------- *)
(* Read handlers: cache lookup, aggregation over the counter store, fill   *)
(* ---------------------------------------------------------------------- *)
RECURSIVE SeqSum(_)
SeqSum(q) == IF q = <<>> THEN 0 ELSE Head(q) + SeqSum(Tail(q))
RECURSIVE SetSum(_)
SetSum(S) == IF S = {} THEN 0
             ELSE LET x == CHOOSE y \in S : TRUE IN x[2] + SetSum(S \ {x})

ClassesOf(courseId) == {k \in ClassIds : ClassDocs[k].courseId = courseId}

\* sum of categoryCount over the rows of a metric and value at a set of classes
TotalOver(am, classIds, m, v) == SetSum({<<k, SeqSum(am[<<k, m, v>>])>> : k \in classIds})
\* courseRatingAggregator with formatAggregatedRatings and filterAggregatedMetrics:
\* <<metricName, categoryValue, count>> for the metrics that have rows
courseRatingAggregator(am, classIds, allowed) ==
  {<<mv[1], mv[2], TotalOver(am, classIds, mv[1], mv[2])>> :
     mv \in {x \in allowed \X CategoryValues :
               \E k \in classIds : Len(am[<<k, x[1], x[2]>>]) > 0}}
\* semestersWithRatingsAggregator: the terms of the course that hold ratings
semestersWithRatingsAggregator(am, courseId) ==
  {<<ClassDocs[k].semester, ClassDocs[k].year>> :
     k \in {c \in ClassesOf(courseId) :
              \E m \in MetricNames, v \in CategoryValues : SeqSum(am[<<c, m, v>>]) > 0}}
\* the instructors of the meetings of the section of each class
Sections ==
  [k \in ClassIds |->
     CASE k = "k1" -> {[givenName |-> "Ada", familyName |-> "Lee", role |-> "PI"],
                       [givenName |-> "Tom", familyName |-> "Ash", role |-> "TA"]}
       [] k = "k2" -> {[givenName |-> "Ben", familyName |-> "Roy", role |-> "PI"]}
       [] k = "k3" -> {[givenName |-> "Ada", familyName |-> "Lee", role |-> "PI"]}]
\* lines 643-694: the instructorMap of a course, from `${givenName}_${familyName}`
\* of its primary instructors to the classes each of them taught
InstructorKey(instructor) == <<instructor.givenName, "_", instructor.familyName>>
IsPrimary(instructor) ==
  instructor.givenName # "" /\ instructor.familyName # "" /\ instructor.role = "PI"
instructorMap(courseId) ==
  LET keys == {InstructorKey(i) :
                 i \in {x \in UNION {Sections[k] : k \in ClassesOf(courseId)} : IsPrimary(x)}}
  IN  [key \in keys |->
         {k \in ClassesOf(courseId) :
            \E i \in Sections[k] : IsPrimary(i) /\ InstructorKey(i) = key}]
\* instructorRatingsAggregator with formatAggregatedRatings: the counters
\* summed over the classes an instructor taught
instructorRatingsAggregator(am, classes) == courseRatingAggregator(am, classes, MetricNames)
\* the count of a metric in formatted aggregated ratings
MetricCount(aggregated, metricName) ==
  SetSum({<<t[2], t[3]>> : t \in {x \in aggregated : x[1] = metricName}})
\* lines 696-722 without the filter: every instructor of the instructorMap
instructorsWithRatingsUnfiltered(am, courseId) ==
  {<<key, instructorRatingsAggregator(am, instructorMap(courseId)[key])>> :
     key \in DOMAIN instructorMap(courseId)}
\* lines 696-722: the instructors with their aggregated ratings, those
\* without a metric of count > 0 left out
instructorsWithRatings(am, courseId) ==
  {r \in {<<key, instructorRatingsAggregator(am, instructorMap(courseId)[key])>> :
            key \in DOMAIN instructorMap(courseId)} :
     \E metricName \in MetricNames : MetricCount(r[2], metricName) > 0}

AllowedMetrics(metricNames) ==
  IF Len(metricNames) = 0 THEN MetricNames
  ELSE {metricNames[i] : i \in 1..Len(metricNames)}
\* getCourseRatingsCount lines 621-626: the largest count of a metric, 0 when
\* there is none
maxCount(aggregated) ==
  LET counts == {MetricCount(aggregated, metricName) : metricName \in MetricNames} \cup {0}
  IN  CHOOSE c \in counts : \A d \in counts : d <= c
\* what a read handler computes on a miss
ReadValue(op, courseId, metricNames, am) ==
  CASE op \in {"getCourseAggregatedRatings", "getCourseRatingsCount"} ->
         courseRatingAggregator(am, ClassesOf(courseId), AllowedMetrics(metricNames))
    [] op = "getSemestersWithRatings" -> semestersWithRatingsAggregator(am, courseId)
    [] op = "getInstructorAggregatedRatings" -> instructorsWithRatings(am, courseId)

\* a read returns value: the first read to return opens phase 1
ReadReturns(op, courseId, metricNames, began, value) ==
  /\ result' = "OK"
  /\ ended' = 0
  /\ returned' = [op |-> op, courseId |-> courseId, metricNames |-> metricNames,
                  began |-> began, value |-> value]
  /\ phase' = IF phase.n = 0
              THEN [phase EXCEPT !.n = 1, !.op = op, !.courseId = courseId]
              ELSE phase

\* a miss: the handler awaits the aggregation
ReadMisses(p, op, course, metricNames) ==
  /\ pc' = [pc EXCEPT ![p] = "aggregate"]
  /\ req' = [req EXCEPT ![p] = [NoReq EXCEPT !.op = op, !.course = course,
                                             !.metricNames = metricNames,
                                             !.phase = phase]]
  /\ result' = "NONE"
  /\ ended' = 0
  /\ returned' = NoValue
  /\ UNCHANGED phase

getCourseAggregatedRatings(p, course, metricNames) ==
  /\ pc[p] = "idle"
  /\ LET courseId == getCourseId(course)
         cacheKey == <<courseId>> \o getMetricNamesKey(metricNames)
     IN  IF courseId = NoCourse
         THEN /\ ReadReturns("getCourseAggregatedRatings", courseId, metricNames, phase, {})
              /\ UNCHANGED <<pc, req, courseAggregatedRatingsCache>>
         ELSE IF CacheHit(courseAggregatedRatingsCache, cacheKey)
         THEN /\ ReadReturns("getCourseAggregatedRatings", courseId, metricNames, phase,
                             courseAggregatedRatingsCache[cacheKey].value)
              /\ UNCHANGED <<pc, req, courseAggregatedRatingsCache>>
         ELSE /\ ReadMisses(p, "getCourseAggregatedRatings", course, metricNames)
              /\ courseAggregatedRatingsCache' =
                   CacheAfterGet(courseAggregatedRatingsCache, cacheKey)
  /\ UNCHANGED <<ratings, aggregatedMetrics, nextId, semestersWithRatingsCache,
                 instructorAggregatedRatingsCache, now, tx, conflict, prev>>

getSemestersWithRatings(p, course) ==
  /\ pc[p] = "idle"
  /\ LET courseId == getCourseId(course)
     IN  IF courseId = NoCourse
         THEN /\ ReadReturns("getSemestersWithRatings", courseId, <<>>, phase, {})
              /\ UNCHANGED <<pc, req, semestersWithRatingsCache>>
         ELSE IF CacheHit(semestersWithRatingsCache, courseId)
         THEN /\ ReadReturns("getSemestersWithRatings", courseId, <<>>, phase,
                             semestersWithRatingsCache[courseId].value)
              /\ UNCHANGED <<pc, req, semestersWithRatingsCache>>
         ELSE /\ ReadMisses(p, "getSemestersWithRatings", course, <<>>)
              /\ semestersWithRatingsCache' =
                   CacheAfterGet(semestersWithRatingsCache, courseId)
  /\ UNCHANGED <<ratings, aggregatedMetrics, nextId, courseAggregatedRatingsCache,
                 instructorAggregatedRatingsCache, now, tx, conflict, prev>>

getInstructorAggregatedRatings(p, course) ==
  /\ pc[p] = "idle"
  /\ LET courseId == getCourseId(course)
     IN  IF courseId = NoCourse
         THEN /\ ReadReturns("getInstructorAggregatedRatings", courseId, <<>>, phase, {})
              /\ UNCHANGED <<pc, req, instructorAggregatedRatingsCache>>
         ELSE IF CacheHit(instructorAggregatedRatingsCache, courseId)
         THEN /\ ReadReturns("getInstructorAggregatedRatings", courseId, <<>>, phase,
                             instructorAggregatedRatingsCache[courseId].value)
              /\ UNCHANGED <<pc, req, instructorAggregatedRatingsCache>>
         ELSE /\ ReadMisses(p, "getInstructorAggregatedRatings", course, <<>>)
              /\ instructorAggregatedRatingsCache' =
                   CacheAfterGet(instructorAggregatedRatingsCache, courseId)
  /\ UNCHANGED <<ratings, aggregatedMetrics, nextId, courseAggregatedRatingsCache,
                 semestersWithRatingsCache, now, tx, conflict, prev>>

\* the aggregation a read awaits is computed from the committed counters
Aggregate(p) ==
  /\ pc[p] = "aggregate"
  /\ pc' = [pc EXCEPT ![p] = "fill"]
  /\ req' = [req EXCEPT ![p].aggregated =
                ReadValue(req[p].op, getCourseId(req[p].course), req[p].metricNames,
                          aggregatedMetrics)]
  /\ result' = "NONE"
  /\ ended' = 0
  /\ returned' = NoValue
  /\ UNCHANGED <<ratings, aggregatedMetrics, nextId, cachevars, now, tx, conflict,
                 prev, phase>>

\* the handler resumes: setCachedValue, return the result
Fill(p) ==
  /\ pc[p] = "fill"
  /\ LET r == req[p]
         courseId == getCourseId(r.course)
     IN  /\ ReadReturns(r.op, courseId, r.metricNames, r.phase,
                         IF r.op = "getCourseRatingsCount"
                         THEN maxCount(r.aggregated) ELSE r.aggregated)
         /\ CASE r.op \in {"getCourseAggregatedRatings", "getCourseRatingsCount"} ->
                   /\ courseAggregatedRatingsCache' =
                        setCachedValue(courseAggregatedRatingsCache,
                                       <<courseId>> \o getMetricNamesKey(r.metricNames),
                                       r.aggregated, COURSE_AGGREGATED_RATINGS_TTL_MS)
                   /\ UNCHANGED <<semestersWithRatingsCache, instructorAggregatedRatingsCache>>
              [] r.op = "getSemestersWithRatings" ->
                   /\ semestersWithRatingsCache' =
                        setCachedValue(semestersWithRatingsCache, courseId,
                                       r.aggregated, SEMESTER_RATINGS_TTL_MS)
                   /\ UNCHANGED <<courseAggregatedRatingsCache,
                                  instructorAggregatedRatingsCache>>
              [] r.op = "getInstructorAggregatedRatings" ->
                   /\ instructorAggregatedRatingsCache' =
                        setCachedValue(instructorAggregatedRatingsCache, courseId,
                                       r.aggregated, INSTRUCTOR_RATINGS_TTL_MS)
                   /\ UNCHANGED <<courseAggregatedRatingsCache, semestersWithRatingsCache>>
  /\ pc' = [pc EXCEPT ![p] = "idle"]
  /\ req' = [req EXCEPT ![p] = NoReq]
  /\ UNCHANGED <<ratings, aggregatedMetrics, nextId, now, tx, conflict, prev>>

\* getCourseRatingsCount: getCourseAggregatedRatings with no filter, then the
\* largest count
getCourseRatingsCount(p, course) ==
  /\ pc[p] = "idle"
  /\ LET courseId == getCourseId(course)
         cacheKey == <<courseId>> \o getMetricNamesKey(<<>>)
     IN  IF courseId = NoCourse
         THEN /\ ReadReturns("getCourseRatingsCount", courseId, <<>>, phase, maxCount({}))
              /\ UNCHANGED <<pc, req, courseAggregatedRatingsCache>>
         ELSE IF CacheHit(courseAggregatedRatingsCache, cacheKey)
         THEN /\ ReadReturns("getCourseRatingsCount", courseId, <<>>, phase,
                             maxCount(courseAggregatedRatingsCache[cacheKey].value))
              /\ UNCHANGED <<pc, req, courseAggregatedRatingsCache>>
         ELSE /\ ReadMisses(p, "getCourseRatingsCount", course, <<>>)
              /\ courseAggregatedRatingsCache' =
                   CacheAfterGet(courseAggregatedRatingsCache, cacheKey)
  /\ UNCHANGED <<ratings, aggregatedMetrics, nextId, semestersWithRatingsCache,
                 instructorAggregatedRatingsCache, now, tx, conflict, prev>>

\* getClassAggregatedRatings: the aggregate of one class, computed on every
\* call; a class without counter rows gives no metrics
getClassAggregatedRatings(p, classRef, metricNames) ==
  /\ pc[p] = "idle"
  /\ result' = "OK"
  /\ ended' = 0
  /\ returned' = [op |-> "getClassAggregatedRatings",
                  courseId |-> IF classRef \in ClassIds
                               THEN ClassDocs[classRef].courseId ELSE NoCourse,
                  metricNames |-> metricNames, began |-> phase,
                  value |-> courseRatingAggregator(aggregatedMetrics,
                                                   {classRef} \cap ClassIds,
                                                   AllowedMetrics(metricNames))]
  /\ UNCHANGED <<ratings, aggregatedMetrics, nextId, cachevars, now, pc, req, tx,
                 conflict, prev, phase>>

\* the getUserRatings handler called as a query: the courses the caller holds
\* ratings for
getUserRatingsQuery(p, user) ==
  /\ pc[p] = "idle"
  /\ IF user = NoUser THEN Return(p, Unauthorized)
     ELSE /\ result' = "OK"
          /\ ended' = 0
          /\ returned' = [op |-> "getUserRatings", courseId |-> NoCourse,
                          metricNames |-> <<>>, began |-> phase,
                          value |-> getUserRatings(user)]
          /\ UNCHANGED <<ratings, aggregatedMetrics, nextId, cachevars, now, pc, req, tx,
                         conflict, prev, phase>>

(* ---------------------------------------------------------------------- *)
(* Specification                                                           *)
(* ---------------------------------------------------------------------- *)
Init ==
  /\ ratings = {}
  /\ aggregatedMetrics = [k \in Keys |-> <<>>]
  /\ nextId = 1
  /\ courseAggregatedRatingsCache = <<>>
  /\ semestersWithRatingsCache = <<>>
  /\ instructorAggregatedRatingsCache = <<>>
  /\ now = 0
  /\ pc = [p \in Requests |-> "idle"]
  /\ req = [p \in Requests |-> NoReq]
  /\ tx = [p \in Requests |-> NoTx]
  /\ conflict = [p \in Requests |-> FALSE]
  /\ result = "NONE"
  /\ returned = NoValue
  /\ ended = 0
  /\ prev = NoReq
  /\ phase = NoPhase

\* one step of the requests P, with handler arguments drawn from the given
\* sets, at most limit Rating documents created, calls recorded in prev or not
NextOver(P, U, K, M, V, L, limit, record) ==
  \E p \in P :
    \/ \E user \in U, classRef \in K, metricName \in M, value \in V :
         createRating(p, user, classRef, metricName, value)
    \/ createRatingTx(p, limit)
    \/ \E user \in U, classRef \in K, metrics \in L :
         createRatings(p, user, classRef, metrics)
    \/ createRatingsTx(p, limit)
    \/ \E user \in U, classRef \in K, metricName \in M :
         deleteRating(p, user, classRef, metricName)
    \/ deleteRatingTx(p)
    \/ \E user \in U, classRef \in K \cap ClassIds : deleteRatings(p, user, CourseRef(classRef))
    \/ deleteRatingsTx(p)
    \/ Commit(p)
    \/ Retry(p)
    \/ StorageError(p)
    \/ Finish(p, record)

\* lists of valid metric inputs that cover the required metrics
ValidLists == {l \in MetricLists :
                 /\ \E i \in 1..Len(l) : l[i].metricName \in REQUIRED_METRICS
                 /\ \A i \in 1..Len(l) : checkValueConstraint(l[i].metricName, l[i].value)}

\* concurrent requests of one user on the two terms of one course
Next ==
  NextOver(Requests, {"u1"}, {"k1", "k2"}, {"Usefulness"}, {3},
           {l \in ValidLists : \A i \in 1..Len(l) :
                                 l[i].metricName = "Usefulness" /\ l[i].value = 3},
           MaxRatingId, FALSE)
Spec == Init /\ [][Next]_vars

\* one request at a time: two users, the two terms of one course, all metrics
NextSeq ==
  NextOver({1}, Users, {"k1", "k2"}, MetricNames, {1, 3}, ValidLists,
           MaxSeqRatingId, FALSE)
SeqSpec == Init /\ [][NextSeq]_vars

\* one request at a time, one user and one metric, with the last call that
\* returned true recorded in prev
NextHist ==
  NextOver({1}, {"u1"}, {"k1", "k2"}, {"Usefulness"}, {1, 3},
           {l \in ValidLists : \A i \in 1..Len(l) : l[i].metricName = "Usefulness"},
           MaxSeqRatingId, TRUE)
HistSpec == Init /\ [][NextHist]_vars

\* the counter store on its own: one session at a time adjusts one key of each
\* metric of one class
AdjustKeys == {k \in Keys : k[1] = "k1" /\ k[3] = 1}
NextAdjust ==
  \E p \in {1} :
    \/ adjustBegin(p)
    \/ \E k \in AdjustKeys, isIncrement \in BOOLEAN : adjust(p, k[1], k[2], k[3], isIncrement)
    \/ adjustEnd(p)
    \/ Commit(p)
    \/ Retry(p)
    \/ StorageError(p)
    \/ Finish(p, FALSE)
AdjustSpec == Init /\ [][NextAdjust]_vars

\* the submissions of one user on the two terms of one course
CacheWrites(p) ==
  \/ \E classRef \in {"k1", "k2"} : createRating(p, "u1", classRef, "Usefulness", 3)
  \/ createRatingTx(p, MaxRatingId)
  \/ \E classRef \in {"k1", "k2"} :
       createRatings(p, "u1", classRef, <<[metricName |-> "Usefulness", value |-> 3]>>)
  \/ createRatingsTx(p, MaxRatingId)
  \/ Commit(p)
  \/ Retry(p)
  \/ StorageError(p)
  \/ Finish(p, FALSE)
\* the cached reads of that course
CacheReads(p) ==
  \/ getCourseAggregatedRatings(p, CourseRef("k1"), <<>>)
  \/ getSemestersWithRatings(p, CourseRef("k1"))
  \/ getInstructorAggregatedRatings(p, CourseRef("k1"))
  \/ Aggregate(p)
  \/ Fill(p)
\* request 1 submits and reads, request 2 reads beside it
NextCache ==
  \/ CacheWrites(1)
  \/ \E p \in Requests : CacheReads(p)
CacheSpec == Init /\ [][NextCache]_vars
\* the same calls, one at a time
NextCacheSeq == CacheWrites(1) \/ CacheReads(1)
CacheSeqSpec == Init /\ [][NextCacheSeq]_vars

\* Date.now() moves on to the expiry time of a cache entry or to the
\* millisecond after it
ExpiryTimes ==
  {courseAggregatedRatingsCache[k].expiresAt : k \in DOMAIN courseAggregatedRatingsCache}
    \cup {semestersWithRatingsCache[k].expiresAt : k \in DOMAIN semestersWithRatingsCache}
    \cup {instructorAggregatedRatingsCache[k].expiresAt :
            k \in DOMAIN instructorAggregatedRatingsCache}
Tick ==
  /\ \E t \in ExpiryTimes \cup {e + 1 : e \in ExpiryTimes} :
       /\ t > now
       /\ t <= MaxNow
       /\ now' = t
  /\ result' = "NONE"
  /\ ended' = 0
  /\ returned' = NoValue
  /\ UNCHANGED <<ratings, aggregatedMetrics, nextId, cachevars, pc, req, tx, conflict,
                 prev, phase>>
\* submissions and cached reads, one at a time, while time passes
NextTime == CacheWrites(1) \/ CacheReads(1) \/ Tick
TimeSpec == Init /\ [][NextTime]_vars

\* the four mutations of one user on the two terms of a course and the cached
\* reads of the course, unfiltered and filtered by metric, one request at a time
NextInval ==
  \/ NextOver({1}, {"u1"}, {"k1", "k2"}, {"Usefulness"}, {3},
              {<<[metricName |-> "Usefulness", value |-> 3]>>}, MaxErrRatingId, FALSE)
  \/ \E metricNames \in {<<>>, <<"Usefulness">>} :
       getCourseAggregatedRatings(1, CourseRef("k1"), metricNames)
  \/ getSemestersWithRatings(1, CourseRef("k1"))
  \/ getInstructorAggregatedRatings(1, CourseRef("k1"))
  \/ Aggregate(1)
  \/ Fill(1)
InvalSpec == Init /\ [][NextInval]_vars

\* one request at a time with inputs that the handlers reject among them: no
\* user, a class reference that names no class, values outside the domain,
\* lists without the required metrics; the submissions that are stored are of
\* one user on the two terms of one course, with value 1
ErrRequests == {1}
ErrUsers == {"u1", NoUser}
ErrSignedIn == ErrUsers \ {NoUser}
ErrClassRefs == {"k0", "k1", "k2"}
ErrValues == {1, 6}
ErrInput(metricName, value) == [metricName |-> metricName, value |-> value]
ErrLists == {<<ErrInput("Usefulness", 1)>>,
             <<ErrInput("Usefulness", 1), ErrInput("Attendance", 1)>>,
             <<ErrInput("Attendance", 1)>>,
             <<ErrInput("Usefulness", 6)>>,
             <<ErrInput("Usefulness", 1), ErrInput("Attendance", 3)>>,
             <<ErrInput("Attendance", 6)>>}
NextErr ==
  \/ NextOver(ErrRequests, ErrUsers, ErrClassRefs, {"Usefulness"}, ErrValues, ErrLists,
              MaxErrRatingId, FALSE)
  \/ \E user \in ErrUsers, classRef \in ErrClassRefs, metricName \in MetricNames,
        value \in InputValues :
       /\ ~checkValueConstraint(metricName, value)
       /\ createRating(1, user, classRef, metricName, value)
  \/ getCourseAggregatedRatings(1, CourseRef("k1"), <<>>)
  \/ Aggregate(1)
  \/ Fill(1)
ErrSpec == Init /\ [][NextErr]_vars

\* one request at a time: valid submissions of one user on the classes of two
\* courses, so that the ceiling on rated courses is met
CeilLists == {<<ErrInput("Usefulness", 1)>>,
              <<ErrInput("Usefulness", 1), ErrInput("Attendance", 1)>>}
NextCeil ==
  \/ NextOver(ErrRequests, ErrSignedIn, ClassIds, {"Usefulness"}, {1}, CeilLists,
              MaxErrRatingId, FALSE)
  \/ getCourseAggregatedRatings(1, CourseRef("k1"), <<>>)
  \/ Aggregate(1)
  \/ Fill(1)
CeilSpec == Init /\ [][NextCeil]_vars

(* ---------------------------------------------------------------------- *)
(* Properties                                                              *)
(* ---------------------------------------------------------------------- *)
Quiescent == \A p \in Requests : pc[p] = "idle"
RatingIds == {r.id : r \in ratings}
\* live Ratings with a class, metric and value
LiveCount(k, m, v) ==
  Cardinality({r \in ratings : r.classId = k /\ r.metricName = m /\ r.value = v})
\* live Ratings of a user for a course and metric
LiveFor(rs, user, courseId, metricName) ==
  {r \in rs : r.createdBy = user /\ CourseOf(r) = courseId /\ r.metricName = metricName}
\* categoryCount of a counter key (0 when the key has no row)
CountOf(am, k, m, v) == SeqSum(am[<<k, m, v>>])

\* C1. Count conservation: whenever no request is in flight, the count held
\* for each (classId, metricName, categoryValue) equals the number of live
\* Ratings with that class, metric and value, and so the counts of a class and
\* metric sum to the number of live Ratings of that class and metric.
C1_CountConservation ==
  Quiescent =>
    /\ \A key \in Keys :
         SeqSum(aggregatedMetrics[key]) = LiveCount(key[1], key[2], key[3])
    /\ \A k \in ClassIds, m \in MetricNames :
         SeqSum([v \in 1..6 |-> SeqSum(aggregatedMetrics[<<k, m, v - 1>>])])
           = Cardinality({r \in ratings : r.classId = k /\ r.metricName = m})

\* C2. At most one live Rating per (createdBy, courseId, metricName) whenever
\* no request is in flight.
C2_AtMostOneLiveRating ==
  Quiescent =>
    \A user \in Users, courseId \in CourseIds, metricName \in MetricNames :
      Cardinality(LiveFor(ratings, user, courseId, metricName)) <= 1

\* C8. Counts never go negative: every counter row holds a count >= 0.
C8_CountsNeverNegative ==
  \A key \in Keys : \A i \in 1..Len(aggregatedMetrics[key]) :
    aggregatedMetrics[key][i] >= 0

\* C7. A createRatings or deleteRatings callback that is run again after a
\* write conflict never decrements a counter for a Rating that another
\* committed unit has already deleted: every Rating it deletes and decrements
\* for is still live when its writes are ready to commit.
C7_RetryKeepsFactAndCounterPaired ==
  \A p \in Requests :
    (/\ pc[p] = "commit" /\ ~conflict[p] /\ req[p].retried
     /\ req[p].op \in {"createRatings", "deleteRatings"})
    => tx[p].dels \subseteq RatingIds

C10_IdempotentResubmission ==
  [][\A p \in Requests :
       (/\ pc[p] = "tx" /\ pc'[p] # "tx" /\ req[p].op = "createRating"
        /\ \E r \in ratings : /\ r.createdBy = req[p].user
                              /\ r.classId = req[p].classRef
                              /\ r.metricName = req[p].metricName
                              /\ r.value = req[p].value)
       => (pc'[p] = "commit" /\ tx'[p] = NoTx)]_vars

\* C6. Term-replace correctness: when the user's last call createRating(M, v1)
\* at class C1 returned true and a createRating(M, v2) at another class C2 of
\* the same course commits, exactly one live Rating exists for (user, course,
\* M), with value v2 at C2, the count of (C1, M, v1) is lowered by the one the
\* first call stood for and the count of (C2, M, v2) is one higher.
C6_TermReplace ==
  [][\A p \in Requests :
       (/\ pc[p] = "commit" /\ pc'[p] = "committed"
        /\ req[p].op = "createRating" /\ prev.op = "createRating"
        /\ prev.user = req[p].user /\ prev.metricName = req[p].metricName
        /\ prev.classRef # req[p].classRef
        /\ ClassDocs[prev.classRef].courseId = ClassDocs[req[p].classRef].courseId)
       => /\ LiveFor(ratings', req[p].user, ClassDocs[req[p].classRef].courseId,
                     req[p].metricName)
               = {r \in ratings' : /\ r.createdBy = req[p].user
                                   /\ r.classId = req[p].classRef
                                   /\ r.metricName = req[p].metricName
                                   /\ r.value = req[p].value}
          /\ Cardinality(LiveFor(ratings', req[p].user,
                                 ClassDocs[req[p].classRef].courseId,
                                 req[p].metricName)) = 1
          /\ CountOf(aggregatedMetrics', prev.classRef, prev.metricName, prev.value)
               = CountOf(aggregatedMetrics, prev.classRef, prev.metricName, prev.value) - 1
          /\ CountOf(aggregatedMetrics', req[p].classRef, req[p].metricName, req[p].value)
               = CountOf(aggregatedMetrics, req[p].classRef, req[p].metricName,
                         req[p].value) + 1]_vars

\* the error kinds of the specification, by extensions.code
ErrorKind(code) ==
  CASE code = "UNAUTHENTICATED" -> "Unauthenticated"
    [] code = "NOT_FOUND" -> "NotFound"
    [] code = "INVALID_ARGUMENT" -> "InvalidArgument"
    [] code = "BAD_USER_INPUT" -> "BadInput"
    [] code = "CONSTRAINT_VIOLATION" -> "ConstraintViolation"
    [] code = "INTERNAL_SERVER_ERROR" -> "StorageError"
    [] OTHER -> "None"

\* a step of p that decrements a key with no row in the view of its session
DecrementOfMissingRow(p) ==
  \E k \in Keys :
    /\ Len(UnitView(p)[k]) = 0
    /\ adjust(p, k[1], k[2], k[3], FALSE)

CacheEntries ==
  ({"course"} \X DOMAIN courseAggregatedRatingsCache)
    \cup ({"semesters"} \X DOMAIN semestersWithRatingsCache)
    \cup ({"instructor"} \X DOMAIN instructorAggregatedRatingsCache)

\* C4. Cache invalidation happens only after the commit: a step that deletes a
\* cache entry which has not expired is the step of a handler whose
\* transaction has committed.
C4_InvalidateOnlyAfterCommit ==
  [][\A e \in CacheEntries :
       (/\ e \notin CacheEntries'
        /\ e[1] = "course" => ~(now > courseAggregatedRatingsCache[e[2]].expiresAt)
        /\ e[1] = "semesters" => ~(now > semestersWithRatingsCache[e[2]].expiresAt)
        /\ e[1] = "instructor" => ~(now > instructorAggregatedRatingsCache[e[2]].expiresAt))
       => \E p \in Requests : pc[p] = "committed" /\ pc'[p] = "idle"]_vars

\* C5. Read-your-write through the cache: a read of a course that begins after
\* a read of that course by the same handler returned and a submission for the
\* course then returned true, with the stores unchanged since, returns the
\* value computed from the counter store as it is now.
C5_ReadYourWrite ==
  [][(/\ returned'.op # "none"
      /\ phase.n = 2
      /\ returned'.began = phase
      /\ returned'.op = phase.op
      /\ returned'.courseId = phase.courseId)
     => returned'.value = ReadValue(returned'.op, returned'.courseId,
                                    returned'.metricNames, aggregatedMetrics)]_vars

(* ---------------------------------------------------------------------- *)
(* Rejections                                                              *)
(* ---------------------------------------------------------------------- *)
\* a step that starts no transaction and keeps every Rating document, every
\* AggregatedMetric row and every cache entry
Untouched ==
  /\ pc' = pc
  /\ tx' = tx
  /\ UNCHANGED <<ratings, aggregatedMetrics, cachevars>>
\* the list covers the required metrics
CoversRequired(metrics) ==
  \A m \in REQUIRED_METRICS : \E i \in 1..Len(metrics) : metrics[i].metricName = m
\* some entry of the list has a value outside the domain of its metric
SomeValueOutside(metrics) ==
  \E i \in 1..Len(metrics) :
    ~checkValueConstraint(metrics[i].metricName, metrics[i].value)

\* C11: a createRating of an authenticated user with a value outside the
\* domain of its metric, and a createRatings of an authenticated user whose
\* list covers the required metrics and holds at least one such entry, fail
\* with InvalidArgument; no transaction is started and every Rating document,
\* AggregatedMetric row and cache entry stays as it was, the valid entries of
\* the list not applied either
C11_DomainRejection ==
  [][\A p \in ErrRequests, user \in ErrSignedIn, classRef \in ErrClassRefs :
       /\ \A metricName \in MetricNames, value \in InputValues :
            (/\ ~checkValueConstraint(metricName, value)
             /\ createRating(p, user, classRef, metricName, value))
            => (ErrorKind(ErrorCode(result')) = "InvalidArgument" /\ Untouched)
       /\ \A metrics \in ErrLists :
            (/\ CoversRequired(metrics)
             /\ SomeValueOutside(metrics)
             /\ createRatings(p, user, classRef, metrics))
            => (ErrorKind(ErrorCode(result')) = "InvalidArgument" /\ Untouched)]_vars
\* a value outside the domain was rejected with documents, rows and cache
\* entries in place
C11_Witness ==
  /\ result = InvalidValue
  /\ ratings # {}
  /\ \E k \in Keys : aggregatedMetrics[k] # <<>>
  /\ DOMAIN courseAggregatedRatingsCache # {}

\* the user holds ratings for as many distinct courses as the ceiling allows
AtCeiling(user) == Cardinality(getUserRatings(user)) = MaxUserCourses
\* the request went on to its transaction
Admitted(p) == pc[p] = "idle" /\ pc'[p] = "tx" /\ result' = "NONE"

\* C12: for a user who holds ratings for exactly the ceiling of distinct
\* courses, a createRating or createRatings with valid inputs is admitted to
\* its transaction when the class is of a course the user has rated, in any
\* term, and fails with ConstraintViolation, leaving every Rating document,
\* AggregatedMetric row and cache entry as it was, when the class is of a
\* course the user has not rated
C12_CeilingEnforcement ==
  [][\A p \in ErrRequests, user \in ErrSignedIn, classRef \in ClassIds :
       AtCeiling(user) =>
         /\ \A metricName \in MetricNames, value \in InputValues :
              (/\ checkValueConstraint(metricName, value)
               /\ createRating(p, user, classRef, metricName, value))
              => IF CourseRef(classRef) \in getUserRatings(user)
                 THEN Admitted(p)
                 ELSE ErrorKind(ErrorCode(result')) = "ConstraintViolation" /\ Untouched
         /\ \A metrics \in CeilLists :
              (/\ CoversRequired(metrics)
               /\ ~SomeValueOutside(metrics)
               /\ createRatings(p, user, classRef, metrics))
              => IF CourseRef(classRef) \in getUserRatings(user)
                 THEN Admitted(p)
                 ELSE ErrorKind(ErrorCode(result')) = "ConstraintViolation" /\ Untouched]_vars
\* a submission for one more course was rejected at the ceiling, with the
\* user's ratings and the cache entries in place
C12_Witness ==
  /\ result = TooManyRatings
  /\ \E user \in ErrSignedIn : AtCeiling(user)
  /\ DOMAIN courseAggregatedRatingsCache # {}

\* C15: createRating, createRatings, deleteRating and deleteRatings called
\* without an authenticated identity fail with Unauthenticated, whatever their
\* other arguments; no transaction is started and every Rating document,
\* AggregatedMetric row and cache entry stays as it was
C15_UnauthenticatedRejected ==
  [][\A p \in ErrRequests, classRef \in ErrClassRefs :
       /\ \A metricName \in MetricNames :
            /\ \A value \in InputValues :
                 createRating(p, NoUser, classRef, metricName, value)
                 => (ErrorKind(ErrorCode(result')) = "Unauthenticated" /\ Untouched)
            /\ deleteRating(p, NoUser, classRef, metricName)
               => (ErrorKind(ErrorCode(result')) = "Unauthenticated" /\ Untouched)
       /\ \A metrics \in ErrLists :
            createRatings(p, NoUser, classRef, metrics)
            => (ErrorKind(ErrorCode(result')) = "Unauthenticated" /\ Untouched)
       /\ classRef \in ClassIds =>
            (deleteRatings(p, NoUser, CourseRef(classRef))
             => (ErrorKind(ErrorCode(result')) = "Unauthenticated" /\ Untouched))]_vars
\* a call without identity was rejected with documents, rows and cache entries
\* in place
C15_Witness ==
  /\ result = Unauthorized
  /\ ratings # {}
  /\ DOMAIN courseAggregatedRatingsCache # {}

\* the live Ratings a deleteRating request matches
Matching(r) == {x \in ratings : /\ x.createdBy = r.user
                                /\ x.classId = r.classRef
                                /\ x.metricName = r.metricName}

\* C16: a deleteRating that matches no live Rating fails with NotFound, and
\* neither its start nor its failing lookup changes a Rating document, an
\* AggregatedMetric row or a cache entry; a createRating or createRatings of
\* an authenticated user with valid inputs for a class that does not exist
\* fails with NotFound, starts no transaction and changes none of them
C16_NotFoundLeavesState ==
  [][\A p \in ErrRequests :
       /\ \A user \in ErrSignedIn, classRef \in ErrClassRefs, metricName \in MetricNames :
            deleteRating(p, user, classRef, metricName)
            => UNCHANGED <<ratings, aggregatedMetrics, cachevars>>
       /\ (req[p].op = "deleteRating" /\ Matching(req[p]) = {} /\ deleteRatingTx(p))
            => /\ ErrorKind(ErrorCode(result')) = "NotFound"
               /\ pc'[p] = "idle"
               /\ UNCHANGED <<ratings, aggregatedMetrics, cachevars>>
       /\ \A user \in ErrSignedIn, classRef \in ErrClassRefs \ ClassIds :
            /\ \A metricName \in MetricNames, value \in InputValues :
                 (/\ checkValueConstraint(metricName, value)
                  /\ createRating(p, user, classRef, metricName, value))
                 => (ErrorKind(ErrorCode(result')) = "NotFound" /\ Untouched)
            /\ \A metrics \in ErrLists :
                 (/\ CoversRequired(metrics)
                  /\ ~SomeValueOutside(metrics)
                  /\ createRatings(p, user, classRef, metrics))
                 => (ErrorKind(ErrorCode(result')) = "NotFound" /\ Untouched)]_vars
\* a deleteRating that matched nothing was rejected with documents, rows and
\* cache entries in place
C16_Witness ==
  /\ result = RatingNotFound
  /\ ratings # {}
  /\ DOMAIN courseAggregatedRatingsCache # {}

\* C17: a createRatings of an authenticated user whose list leaves out a
\* required metric fails with BadInput and a message naming the missing
\* metrics, whatever the class reference and the values (so before the class
\* lookup, the value check and any transaction), and leaves every Rating
\* document, AggregatedMetric row and cache entry as it was; a list that
\* covers the required metrics is never rejected with BadInput, whatever
\* optional metrics it adds
C17_RequiredMetricCoverage ==
  [][\A p \in ErrRequests, user \in ErrSignedIn, classRef \in ErrClassRefs,
        metrics \in ErrLists :
       createRatings(p, user, classRef, metrics) =>
         IF CoversRequired(metrics)
         THEN ErrorKind(ErrorCode(result')) # "BadInput"
         ELSE /\ result' = MissingRequiredMetrics(REQUIRED_METRICS \
                              {metrics[i].metricName : i \in 1..Len(metrics)})
              /\ ErrorKind(ErrorCode(result')) = "BadInput"
              /\ Untouched]_vars
\* a list without the required metric was rejected with documents, rows and
\* cache entries in place
C17_Witness ==
  /\ result = MissingRequiredMetrics(REQUIRED_METRICS)
  /\ ratings # {}
  /\ DOMAIN courseAggregatedRatingsCache # {}

(* ---------------------------------------------------------------------- *)
(* Replace, batch resubmission, course deletion                            *)
(* ---------------------------------------------------------------------- *)
\* Rating documents a step removes and Rating documents it adds
Removed == {x \in ratings : \A y \in ratings' : y.id # x.id}
Added == {y \in ratings' : \A x \in ratings : x.id # y.id}

\* C13: in createRating, whenever a step of the request's transaction removes
\* a Rating document, the same step adds the new Rating of the request at its
\* class, lowers the counter of the removed Rating by one and raises the
\* counter of the new one by one, so that no committed state has the old
\* Rating deleted and the new one not created; and a createRating that ends
\* with an error leaves every Rating document and counter row as it was
C13_ReplaceIsAtomic ==
  [][\A p \in Requests :
       req[p].op = "createRating" =>
         /\ (pc[p] = "commit" /\ tx'[p] # tx[p] /\ Removed # {}) =>
              /\ \E y \in Added :
                   /\ y.createdBy = req[p].user /\ y.classId = req[p].classRef
                   /\ y.metricName = req[p].metricName /\ y.value = req[p].value
                   /\ CountOf(aggregatedMetrics', y.classId, y.metricName, y.value)
                        = CountOf(aggregatedMetrics, y.classId, y.metricName, y.value) + 1
              /\ \A x \in Removed :
                   /\ x.createdBy = req[p].user /\ x.metricName = req[p].metricName
                   /\ x.classId # req[p].classRef
                   /\ CountOf(aggregatedMetrics', x.classId, x.metricName, x.value)
                        = CountOf(aggregatedMetrics, x.classId, x.metricName, x.value) - 1
         /\ (pc[p] \in {"tx", "commit"} /\ pc'[p] = "idle") =>
              UNCHANGED <<ratings, aggregatedMetrics>>]_vars
\* a term change has committed: the Rating at the old class is gone and the one
\* at the new class is there
C13_Witness ==
  \E p \in Requests :
    /\ pc[p] = "committed" /\ req[p].op = "createRating"
    /\ \E x \in req[p].removed : x.classId # req[p].classRef
    /\ \E y \in ratings : y.createdBy = req[p].user /\ y.classId = req[p].classRef

\* the live Ratings of a user for a courseId
LiveOf(user, courseId) == {x \in ratings : x.createdBy = user /\ CourseOf(x) = courseId}

\* C14: when a createRatings(user, class C, metrics) has committed, the live
\* Ratings of the user for the courseId of C are at class C, each with the
\* value submitted for its metric, exactly one for each submitted metric; and
\* every Rating the user held for that courseId before the call was deleted,
\* the counter at its own class, metric and value lowered by one with it (the
\* counter equals the number of live Ratings under that key again)
C14_BatchResubmission ==
  \A p \in Requests :
    (pc[p] = "committed" /\ req[p].op = "createRatings") =>
      LET r == req[p]
          live == LiveOf(r.user, ClassDocs[r.classRef].courseId)
      IN  /\ \A x \in live :
               /\ x.classId = r.classRef
               /\ \E i \in 1..Len(r.metrics) :
                    /\ r.metrics[i].metricName = x.metricName
                    /\ r.metrics[i].value = x.value
          /\ \A i \in 1..Len(r.metrics) :
               Cardinality({x \in live : x.metricName = r.metrics[i].metricName}) = 1
          /\ r.removed = r.existingRatings
          /\ \A x \in r.removed :
               /\ x \notin ratings
               /\ CountOf(aggregatedMetrics, x.classId, x.metricName, x.value)
                    = LiveCount(x.classId, x.metricName, x.value)

\* the live Ratings of a user for a course given by subject and courseNumber
HeldFor(user, course) ==
  {x \in ratings : x.createdBy = user /\ CourseRef(x.classId) = course}

\* C18: the commit of a deleteRatings(user, subject, courseNumber) removes
\* every live Rating the user holds for the course, in every term and for
\* every metric, and no other Rating, so that the user holds none for the
\* course afterwards; and it lowers each counter by exactly the number of
\* removed Ratings with that class, metric and value
C18_DeleteRatingsRemovesAll ==
  [][\A p \in Requests :
       (req[p].op = "deleteRatings" /\ pc[p] = "commit" /\ pc'[p] = "committed") =>
         LET mine == HeldFor(req[p].user, req[p].course)
         IN  /\ ratings' = ratings \ mine
             /\ \A k \in Keys :
                  CountOf(aggregatedMetrics', k[1], k[2], k[3])
                    = CountOf(aggregatedMetrics, k[1], k[2], k[3])
                      - Cardinality({x \in mine : /\ x.classId = k[1]
                                                  /\ x.metricName = k[2]
                                                  /\ x.value = k[3]})]_vars

(* ---------------------------------------------------------------------- *)
(* Cache expiry and invalidation                                           *)
(* ---------------------------------------------------------------------- *)
ReadOps == {"getCourseAggregatedRatings", "getSemestersWithRatings",
            "getInstructorAggregatedRatings"}
\* the cache a read handler uses, its key, and its time to live in minutes
CacheOf(op) ==
  CASE op = "getCourseAggregatedRatings" -> courseAggregatedRatingsCache
    [] op = "getSemestersWithRatings" -> semestersWithRatingsCache
    [] op = "getInstructorAggregatedRatings" -> instructorAggregatedRatingsCache
CacheOfNext(op) ==
  CASE op = "getCourseAggregatedRatings" -> courseAggregatedRatingsCache'
    [] op = "getSemestersWithRatings" -> semestersWithRatingsCache'
    [] op = "getInstructorAggregatedRatings" -> instructorAggregatedRatingsCache'
KeyOf(op, courseId, metricNames) ==
  IF op = "getCourseAggregatedRatings"
  THEN <<courseId>> \o getMetricNamesKey(metricNames)
  ELSE courseId
TtlMinutes(op) == IF op = "getCourseAggregatedRatings" THEN 2 ELSE 5
\* steps of a read of request p: answered from the cache, sent to the
\* aggregation, and resumed after it
HitStep(p) == pc[p] = "idle" /\ pc' = pc /\ returned'.op \in ReadOps
MissStep(p) == pc[p] = "idle" /\ pc'[p] = "aggregate"
FillStep(p) == pc[p] = "fill" /\ pc'[p] = "idle"
\* the refill after a miss: the value is the aggregate of the counter store,
\* stored to expire one time to live from now
Refilled(p) ==
  LET op == req[p].op
      courseId == getCourseId(req[p].course)
      k == KeyOf(op, courseId, req[p].metricNames)
  IN  /\ returned'.value = ReadValue(op, courseId, req[p].metricNames, aggregatedMetrics)
      /\ k \in DOMAIN CacheOfNext(op)
      /\ CacheOfNext(op)[k] = [value |-> returned'.value,
                            expiresAt |-> now + TtlMinutes(op) * 60 * 1000]

\* C19: a read is answered from the cache exactly when the entry exists and
\* now < expiresAt; when now >= expiresAt, now = expiresAt included, the read
\* is a miss that deletes the entry, and the value is recomputed and stored
\* with expiresAt = now + TTL (2 minutes for the course aggregate, 5 minutes
\* for semesters and instructor)
C19_ExpiryRule ==
  [][\A p \in Requests :
       /\ HitStep(p) =>
            LET c == CacheOf(returned'.op)
                k == KeyOf(returned'.op, returned'.courseId, returned'.metricNames)
            IN  k \in DOMAIN c /\ now < c[k].expiresAt /\ returned'.value = c[k].value
       /\ MissStep(p) =>
            LET c == CacheOf(req'[p].op)
                k == KeyOf(req'[p].op, getCourseId(req'[p].course), req'[p].metricNames)
            IN  /\ k \in DOMAIN c => now >= c[k].expiresAt
                /\ k \notin DOMAIN CacheOfNext(req'[p].op)
       /\ FillStep(p) => Refilled(p)]_vars

\* C19 as the code has it: a read is answered from the cache exactly when the
\* entry exists and now <= expiresAt; only when now > expiresAt is the read a
\* miss that deletes the entry, after which the value is recomputed and stored
\* with expiresAt = now + TTL (2 minutes for the course aggregate, 5 minutes
\* for semesters and instructor)
C19_ExpiryRuleAfterExpiry ==
  [][\A p \in Requests :
       /\ HitStep(p) =>
            LET c == CacheOf(returned'.op)
                k == KeyOf(returned'.op, returned'.courseId, returned'.metricNames)
            IN  k \in DOMAIN c /\ now <= c[k].expiresAt /\ returned'.value = c[k].value
       /\ MissStep(p) =>
            LET c == CacheOf(req'[p].op)
                k == KeyOf(req'[p].op, getCourseId(req'[p].course), req'[p].metricNames)
            IN  /\ k \in DOMAIN c => now > c[k].expiresAt
                /\ k \notin DOMAIN CacheOfNext(req'[p].op)
       /\ FillStep(p) => Refilled(p)]_vars
\* a read was answered from an entry at the very millisecond of its expiry
C19_Witness ==
  /\ result = "OK"
  /\ returned.op \in ReadOps
  /\ LET c == CacheOf(returned.op)
         k == KeyOf(returned.op, returned.courseId, returned.metricNames)
     IN  k \in DOMAIN c /\ c[k].expiresAt = now /\ c[k].value = returned.value

\* the cache entries held for a courseId: course-aggregate keys under any
\* metric filter, and the semesters and instructor entries
EntriesOf(course, semesters, instructor, courseId) ==
  ({"course"} \X {k \in DOMAIN course : k[1] = courseId})
    \cup ({"semesters"} \X ((DOMAIN semesters) \cap {courseId}))
    \cup ({"instructor"} \X ((DOMAIN instructor) \cap {courseId}))

RowsOf(am, classId, metricName, categoryValue) ==
  Len(am[<<classId, metricName, categoryValue>>])
\* a class and metric have no row at all
NoRows(am, classId, metricName) ==
  \A v \in CategoryValues : RowsOf(am, classId, metricName, v) = 0
\* a class and metric have exactly one row for each value of the metric's
\* domain, and none for any other value
OneRowEach(am, classId, metricName) ==
  \A v \in CategoryValues :
    RowsOf(am, classId, metricName, v) = IF v \in valueRange(metricName) THEN 1 ELSE 0
\* the step's first increments for a class and metric leave, for each value,
\* a count equal to the number of Ratings the step adds with that value
SeededRight(classId, metricName) ==
  \A v \in valueRange(metricName) :
    CountOf(aggregatedMetrics', classId, metricName, v)
      = Cardinality({y \in Added : /\ y.classId = classId
                                   /\ y.metricName = metricName
                                   /\ y.value = v})

\* C21: in every reachable state each (classId, metricName) has either no
\* AggregatedMetric row or exactly one row for each value of the metric's
\* domain ({1,2,3,4,5} for rating-scale metrics, {0,1} for boolean metrics);
\* and a step that makes the first increment for a class and metric creates
\* the rows of the whole domain, with the increment on the value rated and 0
\* on the others
C21_LazyMaterializationComplete ==
  /\ [](\A classId \in ClassIds, metricName \in MetricNames :
          \/ NoRows(aggregatedMetrics, classId, metricName)
          \/ OneRowEach(aggregatedMetrics, classId, metricName))
  /\ [][\A classId \in ClassIds, metricName \in MetricNames :
          (/\ NoRows(aggregatedMetrics, classId, metricName)
           /\ ~NoRows(aggregatedMetrics', classId, metricName))
          => (/\ OneRowEach(aggregatedMetrics', classId, metricName)
              /\ SeededRight(classId, metricName))]_vars

\* the Rating document a write of request p refers to by its id: the document
\* the handler holds from its lookup before the transaction, else the stored one
RecordOf(p, id) ==
  IF \E x \in req[p].existingRatings : x.id = id
  THEN CHOOSE x \in req[p].existingRatings : x.id = id
  ELSE CHOOSE x \in ratings : x.id = id
\* the net of the +1 and -1 adjustments that accompany the Rating writes of
\* the write set of request p, for a counter key: +1 for each Rating created
\* under the key, -1 for each Rating deleted under it, and for an update of a
\* value -1 under the old value and +1 under the new one
NetAdjustments(p, k) ==
  LET w == tx[p]
      under(x, v) == x.classId = k[1] /\ x.metricName = k[2] /\ v = k[3]
  IN  Cardinality({i \in 1..Len(w.news) : under(w.news[i], w.news[i].value)})
      - Cardinality({id \in w.dels : under(RecordOf(p, id), RecordOf(p, id).value)})
      + Cardinality({u \in w.upds : under(RecordOf(p, u[1]), u[2])})
      - Cardinality({u \in w.upds : under(RecordOf(p, u[1]), RecordOf(p, u[1]).value)})

\* C22: no step deletes an AggregatedMetric row: the rows of a key stay in
\* place, also with count zero, and new ones are only added; and the rows of
\* a key change only when a mutation's transaction commits, the count moving
\* by the net of the +1 and -1 adjustments that accompany the Rating writes of
\* that transaction
C22_RowsNeverDeleted ==
  [][\A k \in Keys :
       /\ Len(aggregatedMetrics'[k]) >= Len(aggregatedMetrics[k])
       /\ aggregatedMetrics'[k] # aggregatedMetrics[k] =>
            \E p \in Requests :
              /\ pc[p] = "commit" /\ pc'[p] = "committed"
              /\ req[p].op \in {"createRating", "deleteRating",
                                 "createRatings", "deleteRatings"}
              /\ CountOf(aggregatedMetrics', k[1], k[2], k[3])
                   = CountOf(aggregatedMetrics, k[1], k[2], k[3]) + NetAdjustments(p, k)]_vars
\* a committed state in which a counter row is still there with count zero
\* after the Rating counted under it was removed
C22_Witness ==
  /\ \E p \in Requests : pc[p] = "committed" /\ req[p].removed # {}
  /\ \E p \in Requests : \E x \in req[p].removed :
       /\ RowsOf(aggregatedMetrics, x.classId, x.metricName, x.value) > 0
       /\ CountOf(aggregatedMetrics, x.classId, x.metricName, x.value) = 0

(* ---------------------------------------------------------------------- *)
(* Effects of one vote                                                     *)
(* ---------------------------------------------------------------------- *)
\* the transaction of a createRating of request p commits in this step
CommitsCreateRating(p) ==
  pc[p] = "commit" /\ pc'[p] = "committed" /\ req[p].op = "createRating"
\* the counters of every key but the given ones keep their rows
OtherKeysUnchanged(keys) ==
  \A k \in Keys \ keys : aggregatedMetrics'[k] = aggregatedMetrics[k]

CommitsDeleteRating(p) ==
  pc[p] = "commit" /\ pc'[p] = "committed" /\ req[p].op = "deleteRating"
\* every counter but the one of the key keeps its value
OtherCountsUnchanged(key) ==
  \A k \in Keys \ {key} :
    CountOf(aggregatedMetrics', k[1], k[2], k[3]) = CountOf(aggregatedMetrics, k[1], k[2], k[3])

\* C24: a createRating of a user with no live Rating of the course and metric
\* ends its callback without an error and its commit adds exactly one Rating,
\* with the user, class, metric and value of the call, and raises exactly the
\* counter of (class, metric, value) by one; a deleteRating that commits
\* removes exactly one Rating, one of the user, class and metric of the call,
\* and lowers exactly the counter of that Rating's class, metric and stored
\* value by one; every other Rating and every other counter value is as before
C24_OneFactOneCounter ==
  [][\A p \in Requests :
       LET r == req[p]
           matches == checkRatingExists(r.user, r.classRef, r.metricName)
       IN  /\ (pc[p] = "tx" /\ r.op = "createRating" /\ matches = {} /\ pc'[p] # "tx")
              => (pc'[p] = "commit" /\ Len(tx'[p].news) = 1)
           /\ (CommitsCreateRating(p) /\ matches = {})
              => /\ ratings' = ratings \cup
                      {[id |-> nextId, createdBy |-> r.user, classId |-> r.classRef,
                        metricName |-> r.metricName, value |-> r.value]}
                 /\ \A x \in ratings : x.id # nextId
                 /\ CountOf(aggregatedMetrics', r.classRef, r.metricName, r.value)
                      = CountOf(aggregatedMetrics, r.classRef, r.metricName, r.value) + 1
                 /\ OtherCountsUnchanged(<<r.classRef, r.metricName, r.value>>)
           /\ CommitsDeleteRating(p)
              => \E x \in ratings :
                   /\ x.createdBy = r.user /\ x.classId = r.classRef
                   /\ x.metricName = r.metricName
                   /\ ratings' = ratings \ {x}
                   /\ CountOf(aggregatedMetrics', x.classId, x.metricName, x.value)
                        = CountOf(aggregatedMetrics, x.classId, x.metricName, x.value) - 1
                   /\ OtherCountsUnchanged(<<x.classId, x.metricName, x.value>>)]_vars
\* a committed deleteRating that removed the Rating of a first vote: no
\* Rating is left and the rows seeded by the vote all hold count zero
C24_Witness ==
  \E p \in Requests :
    /\ pc[p] = "committed" /\ req[p].op = "deleteRating"
    /\ prev.op = "createRating" /\ prev.user = req[p].user
    /\ prev.classRef = req[p].classRef /\ prev.metricName = req[p].metricName
    /\ \E x \in req[p].removed : x.id = 1 /\ x.value = prev.value
    /\ ratings = {} /\ nextId = 2
    /\ \A v \in valueRange(prev.metricName) :
         /\ RowsOf(aggregatedMetrics, prev.classRef, prev.metricName, v) = 1
         /\ CountOf(aggregatedMetrics, prev.classRef, prev.metricName, v) = 0

(* ---------------------------------------------------------------------- *)
(* Course isolation                                                        *)
(* ---------------------------------------------------------------------- *)
\* one request at a time on two courses, the courseId of one a prefix of the
\* courseId of the other: one user submits to and deletes from the first
\* course, both users vote on the second, and the cached reads of both courses
IsoList == <<[metricName |-> "Usefulness", value |-> 3]>>
NextIso ==
  \/ NextOver({1}, {"u1"}, {"k1"}, {"Usefulness"}, {3}, {IsoList}, MaxErrRatingId, FALSE)
  \/ \E user \in Users : createRating(1, user, "k3", "Usefulness", 3)
  \/ getCourseAggregatedRatings(1, CourseRef("k1"), <<>>)
  \/ getCourseAggregatedRatings(1, CourseRef("k3"), <<>>)
  \/ getSemestersWithRatings(1, CourseRef("k3"))
  \/ getInstructorAggregatedRatings(1, CourseRef("k3"))
  \/ Aggregate(1)
  \/ Fill(1)
IsoSpec == Init /\ [][NextIso]_vars

MutationOps == {"createRating", "createRatings", "deleteRating", "deleteRatings"}
\* the courseId a mutation is called on
CourseOfCall(r) ==
  IF r.op = "deleteRatings" THEN getCourseId(r.course)
  ELSE IF r.classRef \in ClassIds THEN ClassDocs[r.classRef].courseId
  ELSE NoCourse
\* what belongs to a courseId: its Ratings, its counter rows, its cache entries
RatingsOfCourse(rs, courseId) == {x \in rs : CourseOf(x) = courseId}
RowsOfCourse(am, courseId) == [k \in {x \in Keys : x[1] \in ClassesOf(courseId)} |-> am[k]]
CourseEntriesOf(cache, courseId) ==
  [k \in {x \in DOMAIN cache : x[1] = courseId} |-> cache[k]]
KeyedEntriesOf(cache, courseId) ==
  [k \in (DOMAIN cache) \cap {courseId} |-> cache[k]]

\* C25: a step of a mutation called on course A leaves the Ratings, the
\* counter rows and the entries of the three caches of every other courseId B
\* as they were, also when the characters of A are a prefix of those of B
C25_CourseIsolation ==
  [][\A p \in Requests :
       LET r == IF pc[p] = "idle" THEN req'[p] ELSE req[p]
       IN  (r.op \in MutationOps /\ (pc'[p] # pc[p] \/ req'[p] # req[p]))
           => \A B \in CourseIds \ {CourseOfCall(r)} :
                /\ RatingsOfCourse(ratings', B) = RatingsOfCourse(ratings, B)
                /\ RowsOfCourse(aggregatedMetrics', B) = RowsOfCourse(aggregatedMetrics, B)
                /\ CourseEntriesOf(courseAggregatedRatingsCache', B)
                     = CourseEntriesOf(courseAggregatedRatingsCache, B)
                /\ KeyedEntriesOf(semestersWithRatingsCache', B)
                     = KeyedEntriesOf(semestersWithRatingsCache, B)
                /\ KeyedEntriesOf(instructorAggregatedRatingsCache', B)
                     = KeyedEntriesOf(instructorAggregatedRatingsCache, B)]_vars
\* a mutation has returned and invalidated the course whose courseId is the
\* prefix, which has counter rows, while the other course holds a Rating and
\* still has its entry in each of the three caches
C25_Witness ==
  /\ result = "OK" /\ returned = NoValue /\ pc[1] = "idle"
  /\ DOMAIN courseAggregatedRatingsCache = {<<"c12", "all">>}
  /\ courseAggregatedRatingsCache[<<"c12", "all">>].value # {}
  /\ DOMAIN semestersWithRatingsCache = {"c12"}
  /\ DOMAIN instructorAggregatedRatingsCache = {"c12"}
  /\ RatingsOfCourse(ratings, "c12") # {}
  /\ \E k \in ClassesOf("c1") : ~NoRows(aggregatedMetrics, k, "Usefulness")
  /\ startsWith(CourseIdChars("c12"), CourseIdChars("c1"))

(* ---------------------------------------------------------------------- *)
(* The background sweep                                                    *)
(* ---------------------------------------------------------------------- *)
\* sweepExpiredEntries deleting an entry from its expiry time on
sweepExpiredEntriesAtExpiry(cache) ==
  [k \in {x \in DOMAIN cache : ~(now >= cache[x].expiresAt)} |-> cache[k]]
\* sweepExpiredEntries: delete every entry with now > entry.expiresAt
sweepExpiredEntries(cache) ==
  [k \in {x \in DOMAIN cache : ~(now > cache[x].expiresAt)} |-> cache[k]]
\* the callback of the interval timer: the three caches are swept. The timer
\* fires between the steps of the handlers; its period is left open, so a
\* sweep can come at any point. result tells a sweep that deleted an entry.
Sweep ==
  /\ courseAggregatedRatingsCache' = sweepExpiredEntries(courseAggregatedRatingsCache)
  /\ semestersWithRatingsCache' = sweepExpiredEntries(semestersWithRatingsCache)
  /\ instructorAggregatedRatingsCache' = sweepExpiredEntries(instructorAggregatedRatingsCache)
  /\ result' = IF cachevars' # cachevars THEN "SWEPT" ELSE "NONE"
  /\ ended' = 0
  /\ returned' = NoValue
  /\ UNCHANGED <<ratings, aggregatedMetrics, nextId, now, pc, req, tx, conflict,
                 prev, phase>>
\* submissions and cached reads, one at a time, while time passes and the
\* caches are swept
NextSweep == NextTime \/ Sweep
SweepSpec == Init /\ [][NextSweep]_vars

\* the entries of a cache a lookup answers from: those with now <= expiresAt
Unexpired(cache) == {k \in DOMAIN cache : now <= cache[k].expiresAt}
\* a step of the timer's callback
SweepStep == pc' = pc /\ now' = now /\ result' \in {"SWEPT", "NONE"}
\* a sweep of the cache removes its entries with now > expiresAt and leaves
\* the others as they are
SweptExactly(cache, cacheNext) ==
  /\ DOMAIN cacheNext = Unexpired(cache)
  /\ \A k \in DOMAIN cacheNext : cacheNext[k] = cache[k]

\* C26: a sweep removes from each cache exactly the entries with
\* now > expiresAt, keeps every other entry as it is and changes nothing
\* else; and a read is answered as it would be right after a sweep: a hit
\* returns the value of an entry a sweep would have kept, a miss finds no
\* entry that a sweep would have kept and returns the value it computed from
\* the counter store
C26_SweepIsOptimization ==
  [][/\ SweepStep =>
          /\ SweptExactly(courseAggregatedRatingsCache, courseAggregatedRatingsCache')
          /\ SweptExactly(semestersWithRatingsCache, semestersWithRatingsCache')
          /\ SweptExactly(instructorAggregatedRatingsCache, instructorAggregatedRatingsCache')
          /\ UNCHANGED <<ratings, aggregatedMetrics, nextId, req, tx>>
     /\ \A p \in Requests :
          /\ HitStep(p) =>
               LET c == CacheOf(returned'.op)
                   k == KeyOf(returned'.op, returned'.courseId, returned'.metricNames)
               IN  k \in Unexpired(c) /\ returned'.value = c[k].value
          /\ MissStep(p) =>
               KeyOf(req'[p].op, getCourseId(req'[p].course), req'[p].metricNames)
                 \notin Unexpired(CacheOf(req'[p].op))
          /\ FillStep(p) =>
               returned'.value = ReadValue(req[p].op, getCourseId(req[p].course),
                                           req[p].metricNames, aggregatedMetrics)]_vars
\* a sweep has just deleted an entry past its expiry and kept an entry of
\* another cache that has not expired
C26_Witness ==
  /\ result = "SWEPT"
  /\ now > COURSE_AGGREGATED_RATINGS_TTL_MS
  /\ DOMAIN courseAggregatedRatingsCache = {}
  /\ \E k \in DOMAIN semestersWithRatingsCache : now <= semestersWithRatingsCache[k].expiresAt

(* ---------------------------------------------------------------------- *)
(* Concurrent misses                                                       *)
(* ---------------------------------------------------------------------- *)
\* two requests read the course aggregate of one course while request 1 also
\* votes on it and deletes its vote
NextMiss ==
  \/ createRating(1, "u1", "k1", "Usefulness", 3)
  \/ createRatingTx(1, MaxErrRatingId)
  \/ deleteRating(1, "u1", "k1", "Usefulness")
  \/ deleteRatingTx(1)
  \/ Commit(1)
  \/ Retry(1)
  \/ StorageError(1)
  \/ Finish(1, FALSE)
  \/ \E p \in Requests :
       \/ getCourseAggregatedRatings(p, CourseRef("k1"), <<>>)
       \/ Aggregate(p)
       \/ Fill(p)
MissSpec == Init /\ [][NextMiss]_vars

\* the read of request p stores and returns in this step, no write to the
\* counters of its course having committed since its miss
FillsUnwritten(p) == FillStep(p) /\ ~req[p].written

\* C27: a read that missed and stores with no write to its course committed
\* since its miss returns the current aggregate and leaves the cache with the other
\* entries as they were and one entry for its key that holds this aggregate,
\* whether it stores first or last of the reads that missed the key; once two
\* reads that missed the same key have both stored, with no write between
\* their misses and the last store, the entry holds the current aggregate
C27_ConcurrentMisses ==
  [][\A p \in Requests :
       FillsUnwritten(p) =>
         LET r == req[p]
             courseId == getCourseId(r.course)
             k == KeyOf(r.op, courseId, r.metricNames)
             current == ReadValue(r.op, courseId, r.metricNames, aggregatedMetrics)
         IN  /\ returned'.value = current
             /\ DOMAIN CacheOfNext(r.op) = DOMAIN CacheOf(r.op) \cup {k}
             /\ CacheOfNext(r.op)[k].value = current
             /\ \A j \in DOMAIN CacheOf(r.op) \ {k} : CacheOfNext(r.op)[j] = CacheOf(r.op)[j]]_vars
\* a read that missed a key is about to store, no write having committed
\* since its miss, and the key already has the entry that another read which
\* missed it has stored meanwhile, holding the aggregate of a store with a vote
C27_Witness ==
  \E p \in Requests :
    /\ pc[p] = "fill" /\ ~req[p].written /\ req[p].op = "getCourseAggregatedRatings"
    /\ \A q \in Requests \ {p} : pc[q] = "idle"
    /\ LET k == KeyOf(req[p].op, getCourseId(req[p].course), req[p].metricNames)
       IN  /\ k \in DOMAIN courseAggregatedRatingsCache
           /\ courseAggregatedRatingsCache[k].value = req[p].aggregated
           /\ \E t \in req[p].aggregated : t[3] > 0

(* ---------------------------------------------------------------------- *)
(* Errors thrown inside the transaction                                    *)
(* ---------------------------------------------------------------------- *)
\* the error of the first step of the callback of request p that fails: the
\* lookup of deleteRatingOperations before its decrement, else the counter
\* adjustment
FirstFailure(p) ==
  IF req[p].op = "deleteRating" /\ Matching(req[p]) = {} THEN RatingNotFound
  ELSE IF valueRange(req[p].metricName) = {} /\ req[p].op = "createRating"
  THEN InvalidMetricName
  ELSE CannotDecrement
\* the callback of request p throws in this step, or its commit fails
CallbackThrows(p) == pc[p] = "tx" /\ pc'[p] = "idle"
CommitFails(p) == pc[p] = "commit" /\ pc'[p] = "idle"

\* C28: a mutation whose callback throws, or whose commit fails, returns to
\* its caller the error of the step that failed, with its message and code:
\* the lookup's NOT_FOUND when deleteRating finds no Rating, the storage
\* error when the commit fails; the mutation ends there, with no Rating or
\* counter row changed
C28_OriginalErrorPropagates ==
  [][\A p \in Requests :
       /\ CallbackThrows(p) =>
            /\ result' = FirstFailure(p)
            /\ ErrorCode(result') = ErrorCode(FirstFailure(p))
            /\ UNCHANGED <<ratings, aggregatedMetrics>>
       /\ CommitFails(p) =>
            /\ result' = StorageFailure
            /\ UNCHANGED <<ratings, aggregatedMetrics>>]_vars
\* the commit of a mutation failed and the storage error was returned to the
\* caller, with the documents and rows of an earlier vote in place
C28_Witness ==
  /\ result = StorageFailure
  /\ \A p \in Requests : pc[p] = "idle"
  /\ ratings # {} /\ \E k \in Keys : Len(aggregatedMetrics[k]) > 0

(* ---------------------------------------------------------------------- *)
(* Instructors with ratings                                                *)
(* ---------------------------------------------------------------------- *)
\* one request at a time: a user votes on the two terms of a course, taught
\* by different instructors, and deletes the votes; the instructor read
NextInstr ==
  \/ \E classRef \in {"k1", "k2"} : createRating(1, "u1", classRef, "Usefulness", 3)
  \/ createRatingTx(1, MaxErrRatingId)
  \/ \E classRef \in {"k1", "k2"} : deleteRating(1, "u1", classRef, "Usefulness")
  \/ deleteRatingTx(1)
  \/ Commit(1)
  \/ Retry(1)
  \/ StorageError(1)
  \/ Finish(1, FALSE)
  \/ getInstructorAggregatedRatings(1, CourseRef("k1"))
  \/ Aggregate(1)
  \/ Fill(1)
InstrSpec == Init /\ [][NextInstr]_vars

\* the primary instructors of the sections of a course, by name
PrimaryInstructors(courseId) ==
  {<<i.givenName, "_", i.familyName>> :
     i \in {x \in UNION {Sections[k] : k \in ClassesOf(courseId)} : x.role = "PI"}}
\* the classes of the course an instructor is a primary instructor of
ClassesTaught(courseId, name) ==
  {k \in ClassesOf(courseId) :
     \E i \in Sections[k] : i.role = "PI" /\ <<i.givenName, "_", i.familyName>> = name}
\* the count of a metric over a set of classes: the counters of all its values
CountOver(am, classes, metricName) ==
  SetSum({<<<<k, v>>, CountOf(am, k, metricName, v)>> : k \in classes, v \in CategoryValues})
\* the instructors listed in a value of the instructor read
Listed(value) == {r[1] : r \in value}

\* C29: the instructor read that computes its value returns one element for
\* each primary instructor of the course for whom the count of at least one
\* metric over the classes they taught is above zero, and for no one else,
\* and stores this same list in the instructor cache under the courseId
C29_InstructorsWithRatings ==
  [][\A p \in Requests :
       (FillStep(p) /\ req[p].op = "getInstructorAggregatedRatings") =>
         LET courseId == getCourseId(req[p].course)
         IN  /\ Listed(returned'.value)
                  = {name \in PrimaryInstructors(courseId) :
                       \E metricName \in MetricNames :
                         CountOver(aggregatedMetrics, ClassesTaught(courseId, name),
                                   metricName) > 0}
             /\ Cardinality(returned'.value) = Cardinality(Listed(returned'.value))
             /\ courseId \in DOMAIN instructorAggregatedRatingsCache'
             /\ instructorAggregatedRatingsCache'[courseId].value = returned'.value]_vars
\* the instructor read has returned and cached a list with the one instructor
\* whose class holds a vote, while the class of the other primary instructor
\* has counter rows with count zero
C29_Witness ==
  /\ returned.op = "getInstructorAggregatedRatings"
  /\ Listed(returned.value) = {<<"Ada", "_", "Lee">>}
  /\ "c1" \in DOMAIN instructorAggregatedRatingsCache
  /\ instructorAggregatedRatingsCache["c1"].value = returned.value
  /\ ~NoRows(aggregatedMetrics, "k2", "Usefulness")
  /\ CountOver(aggregatedMetrics, {"k2"}, "Usefulness") = 0

(* ---------------------------------------------------------------------- *)
(* The key of the course-aggregate cache                                   *)
(* ---------------------------------------------------------------------- *)
\* the metric-name filters of a read: none, one name, and the two names in
\* both orders
FilterLists == {<<>>, <<"Usefulness">>, <<"Usefulness", "Attendance">>,
                <<"Attendance", "Usefulness">>}
\* one request at a time: a user votes on the metrics of a class and deletes
\* a vote; the course aggregate is read with every filter
NextKey ==
  \/ \E metricName \in MetricNames : createRating(1, "u1", "k1", metricName, 1)
  \/ createRatingTx(1, MaxErrRatingId)
  \/ deleteRating(1, "u1", "k1", "Usefulness")
  \/ deleteRatingTx(1)
  \/ Commit(1)
  \/ Retry(1)
  \/ StorageError(1)
  \/ Finish(1, FALSE)
  \/ \E metricNames \in FilterLists :
       getCourseAggregatedRatings(1, CourseRef("k1"), metricNames)
  \/ Aggregate(1)
  \/ Fill(1)
KeySpec == Init /\ [][NextKey]_vars

\* filters that list the same names the same number of times
IsPermutation(f, g) ==
  /\ Len(f) = Len(g)
  /\ \A name \in MetricNames :
       Cardinality({i \in 1..Len(f) : f[i] = name})
         = Cardinality({i \in 1..Len(g) : g[i] = name})
\* the names of a filter
NamesOf(f) == {f[i] : i \in 1..Len(f)}

\* C30: a read of the course aggregate that is answered from the cache is
\* answered from the entry under the key of every permutation of its filter,
\* and one that misses stores under that key; the key of the empty filter is
\* the key 'all' of the course; and the value stored under the key is the
\* aggregate of all metrics restricted to the metrics named in the filter,
\* to all of them for the empty filter
C30_KeyIgnoresFilterOrder ==
  [][\A p \in Requests :
       /\ HitStep(p) /\ returned'.op = "getCourseAggregatedRatings" =>
            \A g \in FilterLists :
              IsPermutation(g, returned'.metricNames) =>
                LET k == <<returned'.courseId>> \o getMetricNamesKey(g)
                IN  /\ k \in DOMAIN courseAggregatedRatingsCache
                    /\ returned'.value = courseAggregatedRatingsCache[k].value
       /\ FillStep(p) /\ req[p].op = "getCourseAggregatedRatings" =>
            LET f == req[p].metricNames
                courseId == getCourseId(req[p].course)
                all == ReadValue(req[p].op, courseId, <<>>, aggregatedMetrics)
                key == IF f = <<>> THEN <<courseId, "all">>
                       ELSE <<courseId>> \o getMetricNamesKey(f)
            IN  /\ \A g \in FilterLists :
                     IsPermutation(g, f) => key = <<courseId>> \o getMetricNamesKey(g)
                /\ DOMAIN courseAggregatedRatingsCache'
                     = DOMAIN courseAggregatedRatingsCache \cup {key}
                /\ courseAggregatedRatingsCache'[key].value
                     = IF f = <<>> THEN all ELSE {t \in all : t[1] \in NamesOf(f)}
                /\ returned'.value = courseAggregatedRatingsCache'[key].value]_vars
\* a read whose filter names the two metrics in one order was answered from
\* the cache, the only entry being under the key with the names in sorted
\* order and holding counts of both metrics
C30_Witness ==
  /\ returned.op = "getCourseAggregatedRatings"
  /\ returned.metricNames = <<"Usefulness", "Attendance">>
  /\ pc[1] = "idle" /\ result = "OK"
  /\ DOMAIN courseAggregatedRatingsCache = {<<"c1", "Attendance", "Usefulness">>}
  /\ \E t \in returned.value : t[1] = "Usefulness" /\ t[3] > 0
  /\ \E t \in returned.value : t[1] = "Attendance" /\ t[3] > 0

(* ---------------------------------------------------------------------- *)
(* Stale fills                                                             *)
(* ---------------------------------------------------------------------- *)
\* every write that has committed has also run its invalidation and returned
WritesReturned == \A p \in Requests : pc[p] # "committed"
\* the entry a read of the course with this filter would be answered from
\* holds the aggregate of the counter store as it is now
ServesCurrent(op, courseId, metricNames) ==
  LET k == KeyOf(op, courseId, metricNames)
  IN  CacheHit(CacheOf(op), k) =>
        CacheOf(op)[k].value = ReadValue(op, courseId, metricNames, aggregatedMetrics)

\* C31: no stale fill after invalidation. Once every committed write has run
\* its invalidation and returned, no cache entry that a read starting now
\* would be answered from holds an aggregate computed before that write: a
\* read that missed and read the counter store before the commit, and stores
\* after the invalidation, must not leave its pre-write aggregate in the cache
C31_NoStaleFill ==
  WritesReturned =>
    \A op \in ReadOps, courseId \in CourseIds, metricNames \in FilterLists :
      ServesCurrent(op, courseId, metricNames)

(* ---------------------------------------------------------------------- *)
(* Concurrent submissions                                                  *)
(* ---------------------------------------------------------------------- *)
\* two requests of one user at a time on one class and metric, every batch
\* naming the metric once
NextRace ==
  NextOver(Requests, {"u1"}, {"k1"}, {"Usefulness"}, {3},
           {<<ErrInput("Usefulness", 3)>>}, MaxRatingId, FALSE)
RaceSpec == Init /\ [][NextRace]_vars

\* C32: at most one live Rating under concurrency. When submissions of one
\* user for one course and metric (createRating or createRatings) run
\* interleaved, each having looked up the user's ratings before the other
\* commits, then once they have returned there is at most one live Rating for
\* that (user, courseId, metricName) and every counter equals the number of
\* live Ratings with its class, metric and value
C32_OneLiveRatingUnderConcurrency ==
  Quiescent =>
    /\ \A user \in Users, courseId \in CourseIds, metricName \in MetricNames :
         \A r1, r2 \in LiveFor(ratings, user, courseId, metricName) : r1 = r2
    /\ \A key \in Keys : CountOf(aggregatedMetrics, key[1], key[2], key[3])
                           = LiveCount(key[1], key[2], key[3])

(* ---------------------------------------------------------------------- *)
(* Concurrent first increments                                             *)
(* ---------------------------------------------------------------------- *)
\* the user each request acts for
UserOf(p) == IF p = 1 THEN "u1" ELSE "u2"
\* two users vote on the same class and metric at the same time, and delete
\* their votes
NextSeed ==
  \E p \in Requests :
    \/ createRating(p, UserOf(p), "k1", "Usefulness", 3)
    \/ createRatingTx(p, MaxRatingId)
    \/ deleteRating(p, UserOf(p), "k1", "Usefulness")
    \/ deleteRatingTx(p)
    \/ Commit(p)
    \/ Retry(p)
    \/ StorageError(p)
    \/ Finish(p, FALSE)
SeedSpec == Init /\ [][NextSeed]_vars

\* C33: counter key uniqueness under concurrent first increments. When two
\* units make the first increment for the same (classId, metricName) at the
\* same time, each having found no row, then once they have returned there is
\* at most one AggregatedMetric row per (classId, metricName, categoryValue)
\* and the counts of the class and metric sum to the number of its Ratings
C33_CounterKeyUnique ==
  Quiescent =>
    \A classId \in ClassIds, metricName \in MetricNames :
      /\ \A v \in CategoryValues : RowsOf(aggregatedMetrics, classId, metricName, v) <= 1
      /\ SetSum({<<v, CountOf(aggregatedMetrics, classId, metricName, v)>> :
                   v \in CategoryValues})
           = Cardinality({r \in ratings : r.classId = classId /\ r.metricName = metricName})

(* ---------------------------------------------------------------------- *)
(* The ceiling under concurrency                                           *)
(* ---------------------------------------------------------------------- *)
\* two requests of one user at a time submit for classes of two courses and
\* delete
NextCeilRace ==
  NextOver(Requests, {"u1"}, {"k1", "k3"}, {"Usefulness"}, {3},
           {<<ErrInput("Usefulness", 3)>>}, MaxRatingId, FALSE)
CeilRaceSpec == Init /\ [][NextCeilRace]_vars

\* C34: the rating ceiling holds under concurrency. In every committed state
\* the number of distinct courses for which a user holds live Ratings is at
\* most the configured ceiling, also when two submissions of the user for two
\* courses not yet rated interleave while the user is one course below it
C34_CeilingUnderConcurrency ==
  \A user \in Users : Cardinality(getUserRatings(user)) <= MaxUserCourses

(* ---------------------------------------------------------------------- *)
(* Batches that repeat a metric                                            *)
(* ---------------------------------------------------------------------- *)
\* the metric list names some metric more than once
RepeatsMetric(metrics) ==
  \E i, j \in 1..Len(metrics) : i < j /\ metrics[i].metricName = metrics[j].metricName
\* the commit of the createRatings call of request p
CommitsCreateRatings(p) ==
  pc[p] = "commit" /\ pc'[p] = "committed" /\ req[p].op = "createRatings"

\* C35: a createRatings call whose metric list names a metric more than once
\* is either rejected with the stores unchanged or, when it commits, leaves
\* exactly one live Rating for each (user, courseId, metricName) it names and
\* counters of the class that equal the numbers of live Ratings; it never
\* commits two Ratings for the same metric
C35_RepeatedMetricBatch ==
  [][\A p \in Requests :
       IF req[p].op = "createRatings" /\ RepeatsMetric(req[p].metrics)
       THEN IF CommitsCreateRatings(p)
            THEN /\ \A i \in 1..Len(req[p].metrics) :
                      Cardinality(LiveFor(ratings', req[p].user,
                                          ClassDocs[req[p].classRef].courseId,
                                          req[p].metrics[i].metricName)) = 1
                 /\ \A key \in Keys :
                      key[1] = req[p].classRef =>
                        CountOf(aggregatedMetrics', key[1], key[2], key[3])
                          = Cardinality({r \in ratings' : /\ r.classId = key[1]
                                                          /\ r.metricName = key[2]
                                                          /\ r.value = key[3]})
            ELSE UNCHANGED dbvars
       ELSE TRUE]_vars

(* ---------------------------------------------------------------------- *)
(* Sessions                                                                *)
(* ---------------------------------------------------------------------- *)
\* the handler of request p holds a session it has started and not yet ended
SessionOpen(p) == req[p].session = "open"
\* the step takes the handler of request p out of its try/finally
LeavesSession(p) == SessionOpen(p) /\ req'[p].session # "open"
\* the entries of the three caches that have not expired
LiveEntries ==
  {e \in CacheEntries :
     /\ e[1] = "course" => ~(now > courseAggregatedRatingsCache[e[2]].expiresAt)
     /\ e[1] = "semesters" => ~(now > semestersWithRatingsCache[e[2]].expiresAt)
     /\ e[1] = "instructor" => ~(now > instructorAggregatedRatingsCache[e[2]].expiresAt)}
\* the step removes a cache entry that a read would still have been answered from
InvalidationStep == \E e \in LiveEntries : e \notin CacheEntries'

\* a handler that leaves its transaction, returning or throwing, makes one
\* endSession call in that step, and no other step makes any
SessionsEndedOnce ==
  [][/\ \A p \in Requests : LeavesSession(p) => ended' = 1
     /\ (\A p \in Requests : ~LeavesSession(p)) => ended' = 0]_vars

\* C36: every session a mutating operation starts is ended exactly once, on
\* the success path and on every failure path: the step in which a handler
\* leaves its transaction, returning or throwing, makes one endSession call,
\* and no other step makes any; and cache invalidation is performed only
\* after the session has ended and only when the transaction did not throw:
\* a step that invalidates is the step of a handler that ends its session and
\* returns true
C36_SessionEndedOnceThenInvalidate ==
  /\ SessionsEndedOnce
  /\ [][InvalidationStep =>
          \E p \in Requests : LeavesSession(p) /\ ended' = 1 /\ result' = "OK"]_vars

(* ---------------------------------------------------------------------- *)
(* deleteRatings with nothing to delete                                    *)
(* ---------------------------------------------------------------------- *)
\* C37: deleteRatings for a user who holds no Rating for the given subject
\* and courseNumber returns true without starting a session or a
\* transaction, and leaves every Rating, every AggregatedMetric row and every
\* cache entry as it was: no invalidation is performed
C37_DeleteRatingsNothingToDelete ==
  [][\A p \in Requests, user \in Users, course \in CourseRefs :
       (HeldFor(user, course) = {} /\ deleteRatings(p, user, course)) =>
         /\ result' = "OK"
         /\ ended' = 0
         /\ req' = req
         /\ Untouched]_vars
\* deleteRatings has just returned true for the course COMPSCI 61A, of which
\* the user holds no Rating, while the user holds a Rating of another course,
\* the class has counter rows and both courses have a live cache entry
C37_Witness ==
  /\ result = "OK" /\ returned = NoValue /\ ended = 0
  /\ \A p \in Requests : pc[p] = "idle"
  /\ HeldFor("u1", CourseRef("k1")) = {}
  /\ HeldFor("u1", CourseRef("k3")) # {}
  /\ ~NoRows(aggregatedMetrics, "k1", "Usefulness")
  /\ {<<"course", <<"c1", "all">>>>, <<"course", <<"c12", "all">>>>} \subseteq LiveEntries

(* ---------------------------------------------------------------------- *)
(* Reads                                                                   *)
(* ---------------------------------------------------------------------- *)
\* a subject and courseNumber that CourseModel has no document for
UnknownCourse == <<"HISTORY", "7B">>
\* the six read handlers, on a course on which a vote is cast, on
\* a course that is not known and for a caller with and without identity;
\* time passes on until every cache entry has expired
NextRead ==
  \/ createRating(1, "u1", "k1", "Usefulness", 3)
  \/ createRatingTx(1, MaxErrRatingId)
  \/ Commit(1)
  \/ Retry(1)
  \/ StorageError(1)
  \/ Finish(1, FALSE)
  \/ \E course \in {CourseRef("k1"), UnknownCourse} :
       \/ \E metricNames \in {<<>>, <<"Usefulness">>} :
            getCourseAggregatedRatings(1, course, metricNames)
       \/ getSemestersWithRatings(1, course)
       \/ getInstructorAggregatedRatings(1, course)
       \/ getCourseRatingsCount(1, course)
  \/ \E classRef \in {"k1", "k0"} : getClassAggregatedRatings(1, classRef, <<>>)
  \/ \E user \in {"u1", NoUser} : getUserRatingsQuery(1, user)
  \/ Aggregate(1)
  \/ Fill(1)
  \/ (Tick /\ \A t \in ExpiryTimes : now' > t)
ReadSpec == Init /\ [][NextRead]_vars

AllReadOps == ReadOps \cup {"getCourseRatingsCount", "getClassAggregatedRatings",
                            "getUserRatings"}
\* the read call that takes the step: the one that returns in it, or else the
\* one whose request moves
ReadCall ==
  IF returned'.op # "none"
  THEN [op |-> returned'.op, courseId |-> returned'.courseId,
        metricNames |-> returned'.metricNames]
  ELSE LET p == CHOOSE q \in Requests : pc'[q] # pc[q]
       IN  [op |-> req'[p].op, courseId |-> getCourseId(req'[p].course),
            metricNames |-> req'[p].metricNames]
\* the step is one of a read handler
ReadStep ==
  \/ returned'.op \in AllReadOps
  \/ \E p \in Requests : pc'[p] # pc[p] /\ req'[p].op \in AllReadOps
\* the cache entries other than the one a call reads are as they were
OnlyOwnEntry(c) ==
  LET mine == CASE c.op \in {"getCourseAggregatedRatings", "getCourseRatingsCount"} ->
                     {<<"course", <<c.courseId>> \o getMetricNamesKey(c.metricNames)>>}
                [] c.op = "getSemestersWithRatings" -> {<<"semesters", c.courseId>>}
                [] c.op = "getInstructorAggregatedRatings" -> {<<"instructor", c.courseId>>}
                [] OTHER -> {}
      Entry(e, course, semesters, instructor) ==
        CASE e[1] = "course" -> course[e[2]]
          [] e[1] = "semesters" -> semesters[e[2]]
          [] e[1] = "instructor" -> instructor[e[2]]
  IN  /\ CacheEntries' \ mine = CacheEntries \ mine
      /\ \A e \in CacheEntries \ mine :
           Entry(e, courseAggregatedRatingsCache', semestersWithRatingsCache',
                 instructorAggregatedRatingsCache')
             = Entry(e, courseAggregatedRatingsCache, semestersWithRatingsCache,
                     instructorAggregatedRatingsCache)

\* C38: read operations never change durable state. Every step of
\* getCourseAggregatedRatings, getSemestersWithRatings,
\* getInstructorAggregatedRatings, getClassAggregatedRatings, getUserRatings
\* and getCourseRatingsCount leaves every Rating and every AggregatedMetric
\* row unchanged and starts no transaction; the only cache entry it may change
\* is the one under the key it reads; and called for a subject and
\* courseNumber with no known courseId, a read returns an empty result and
\* changes no cache entry at all
C38_ReadsChangeNoDurableState ==
  [][ReadStep =>
       /\ UNCHANGED <<ratings, aggregatedMetrics, nextId, tx>>
       /\ ended' = 0
       /\ OnlyOwnEntry(ReadCall)
       /\ (ReadCall.op \notin {"getClassAggregatedRatings", "getUserRatings"}
             /\ ReadCall.courseId = NoCourse)
            => /\ returned'.value = (IF ReadCall.op = "getCourseRatingsCount" THEN 0 ELSE {})
               /\ UNCHANGED cachevars]_vars
\* getCourseRatingsCount has just computed and returned the count of a course
\* with a vote and stored the unfiltered aggregate under its key, while the
\* entry of the course in the semesters cache, which expired before the call,
\* is still there
C38_Witness ==
  /\ returned.op = "getCourseRatingsCount" /\ returned.value = 1
  /\ ratings # {}
  /\ <<"c1", "all">> \in DOMAIN courseAggregatedRatingsCache
  /\ courseAggregatedRatingsCache[<<"c1", "all">>].expiresAt = now + COURSE_AGGREGATED_RATINGS_TTL_MS
  /\ "c1" \in DOMAIN semestersWithRatingsCache
  /\ now > semestersWithRatingsCache["c1"].expiresAt

====
